---------------------------- MODULE Spec2Model ----------------------------
(***************************************************************************)
(* The training-data pipeline of training/tf/chunkparser.py:               *)
(*   chunk source -> N worker processes (task) -> pipes -> v2_gen          *)
(*   (poll + shuffle buffer) -> tuple_gen -> batch_gen.                    *)
(* Each worker is a separate process; the consumer is single threaded.     *)
(* MSpec is main of training/tf/convert_to_v3.py, which rewrites the v2     *)
(* records of one file into the v3 layout.                                 *)
(* FSpec is FileDataSrc of training/tf/train.py, the chunk source of the   *)
(* workers; PSpec is BinaryParser.parse_chunk of                           *)
(* training/tf/supervised_parse.py.                                        *)
(***************************************************************************)
EXTENDS Integers, Sequences, FiniteSets, TLC

\* ------------------------------------------------------------------ bounds
MaxWorkers == 2      \* workers given to ChunkParser(...)
MaxBlobs == 2        \* blobs held by the chunk source
MaxRecs == 1         \* whole records (or whole line groups) in one blob
MaxShuffle == 2      \* shuffle_size
MaxBatch == 2        \* batch_size
MaxSample == 2       \* sample (down-sampling denominator)
U_MaxRecs == 3       \* byte-level run: whole records in the chunk
U_MaxSample == 2     \* byte-level run: sample
U_Shuffle == 2       \* byte-level run: shuffle_size
TailLines == 5       \* byte-level run: lines of a cut-off text record
TailBytes == 100     \* byte-level run: bytes of a cut-off v2 record
ChanCap == 1         \* records one pipe buffers before send_bytes blocks
M_MaxRecs == 2       \* migrator run: whole records in the file
F_MaxFiles == 3      \* file source run: files given to FileDataSrc(...)
F_MaxCalls == 7      \* file source run: calls of next()
P_MaxExamples == 3   \* supervised run: examples in the file
P_MaxBatch == 4      \* supervised run: batch size
P_MaxItems == 12     \* supervised run: items pulled from parse_chunk

VARIABLES
    workers,       \* number of child workers started by __init__
    shuffle_size,  \* self.shuffle_size
    batch_size,    \* self.batch_size
    sample,        \* self.sample
    entry,         \* the generator the caller iterates: "v2_gen" or "parse"
    chunks,        \* the blob list the chunk source was built from
    items,         \* items[w]: ChunkDataSrc.items as held by worker process w
    pulled,        \* history: pulled[b] = how many times blob b was handed out
    wpc,           \* wpc[w]: "pull" | "send" | "exited" | "died"
    wq,            \* wq[w]: records the running decoder generator still yields
    werr,          \* werr[w]: the generator raises once wq[w] is exhausted
    chan,          \* chan[w]: records buffered in worker w's pipe
    sent,          \* history: sent[w] = records worker w wrote to its pipe
    readers,       \* self.readers
    ri,            \* index of the list iterator of "for r in self.readers"
    sbuff,         \* the shuffle buffer's resident records, by slot
    cpc,           \* v2_gen: "poll" | "drain" | "done"
    inserted,      \* history: records passed to insert_or_replace
    yielded,       \* history: records v2_gen yielded
    cur,           \* batch_gen: tuples of the batch being collected
    batches,       \* history: batches batch_gen yielded
    bpc,           \* parse(): "run" | "done" | "raised"
    usrc,          \* byte-level run: the positions the chunk was built from
    ublob,         \* byte-level run: the chunk, as bytes or as text lines
    uk,            \* byte-level run: self.sample
    udec,          \* the decoder generator: "idle" | "run" | "returned" | "raised"
    ui,            \* candidates the decoder's loop has passed
    udraws,        \* history: the draw made for each candidate
    uout,          \* history: records the decoder yielded
    usb,           \* the shuffle buffer's resident records
    ufed,          \* records of uout handed to the shuffle buffer
    uemit,         \* history: records v2_gen yielded
    utup,          \* history: tuples tuple_gen yielded
    utpc,          \* tuple_gen: "run" | "raised"
    mfile,         \* migrator run: how the input file was built
    mblob,         \* migrator run: chunkdata, the bytes read from the file
    margs,         \* migrator run: args.display and args.convert
    mi,            \* records the loop of main has passed
    mout,          \* history: the records written to fout
    mpc,           \* main: "idle" | "run" | "drain" | "done" | "raised"
    mmaps,         \* the move maps init_move_map builds
    ffiles,        \* file source run: the list given to FileDataSrc(...)
    fkind,         \* file source run: fkind[f]: "ok" | "noopen" | "badgz"
    fchunks,       \* self.chunks
    fdone,         \* self.done
    fret,          \* history: what each call of next() returned
    plen,          \* supervised run: self.len, the size of the file in bytes
    pbatch,        \* self.batch_size
    ptell,         \* self.f.tell()
    pdata,         \* parse_chunk: data, as the file extents it is made of
    pidx,          \* parse_chunk: i of the for loop, batch_size before a read
    pout           \* history: the items parse_chunk yielded

cfgvars == <<workers, shuffle_size, batch_size, sample, entry, chunks>>
wvars == <<items, pulled, wpc, wq, werr, chan, sent>>
cvars == <<readers, ri, sbuff, cpc, inserted, yielded>>
bvars == <<cur, batches, bpc>>
uvars == <<usrc, ublob, uk, udec, ui, udraws, uout, usb, ufed, uemit, utup, utpc>>
mvars == <<mfile, mblob, margs, mi, mout, mpc, mmaps>>
fvars == <<ffiles, fkind, fchunks, fdone, fret>>
pvars == <<plen, pbatch, ptell, pdata, pidx, pout>>
vars == <<cfgvars, wvars, cvars, bvars, uvars, mvars, fvars, pvars>>

\* ------------------------------------------------------------ sequences
Range(s) == {s[i] : i \in DOMAIN s}

RemoveAt(s, i) == SubSeq(s, 1, i - 1) \o SubSeq(s, i + 1, Len(s))

RECURSIVE Flatten(_)
Flatten(ss) ==
    IF ss = <<>> THEN <<>>
    ELSE IF Len(ss) = 1 THEN ss[1]
    ELSE LET h == Len(ss) \div 2
         IN  Flatten(SubSeq(ss, 1, h)) \o Flatten(SubSeq(ss, h + 1, Len(ss)))

\* the multiset of a sequence's elements
BagOf(s) == [x \in Range(s) |-> Cardinality({i \in DOMAIN s : s[i] = x})]

SeqsUpTo(S, n) == UNION {[1..k -> S] : k \in 1..n}


\* ---------------------------------------------------------------- blobs
(* A blob (chunkdata) is described by its header and its payload:          *)
(*   fmt  "inval": the first 4 bytes are 01 00 00 00;                      *)
(*        "v2":    the first 4 bytes are VERSION, the rest binary records; *)
(*        "v1":    anything else, read as text lines;                      *)
(*   n    whole records (v2) or whole 121-line groups (v1) it holds;       *)
(*   bad  "none", "tail" (a trailing partial record / incomplete group),   *)
(*        or "outcome" (the last whole record's outcome is not -1, 0, 1).  *)
Blobs ==
    {b \in [fmt : {"inval", "v2", "v1"}, n : 0..MaxRecs, bad : {"none", "tail", "outcome"}] :
        /\ (b.fmt = "inval") => (b.n = 0 /\ b.bad = "none")
        /\ (b.bad = "outcome") => (b.n >= 1)
        \* a blob that starts with the 4 bytes of VERSION is not empty
        /\ (b.fmt = "v2" /\ b.n = 0) => (b.bad = "tail")}

\* faulty variant: only the range of the result byte is tested
OutcomeAnyInt8(w) == w \in -128..127

\* assert winner == 1 or winner == -1 or winner == 0
ValidOutcome(w) == w = 1 \/ w = -1 \/ w = 0

\* the fields of record idx of the blob at position pos of the source list
RecordAt(blob, pos, idx) ==
    [probs |-> <<pos * 10 + idx>>,
     planes |-> <<pos, idx>>,
     winner |-> IF idx <= blob.n
                THEN (IF blob.bad = "outcome" /\ idx = blob.n THEN 2 ELSE ((pos + idx) % 3) - 1)
                ELSE 0,
     full |-> idx <= blob.n]

\* the windows range(0, len(chunkdata), size) visits: the whole records, then
\* the trailing partial one
Candidates(blob, pos) ==
    [idx \in 1..(blob.n + (IF blob.bad = "tail" THEN 1 ELSE 0)) |-> RecordAt(blob, pos, idx)]

\* faulty variant: the test of the draw is inverted
KeptWhenNonZero(k, draw) == (k > 1) => (draw # 0)

\* if self.sample > 1: if random.randint(0, self.sample-1) != 0: continue
Kept(k, draw) == (k > 1) => (draw = 0)

\* convert_v1_to_v2 raises on a group that does not fit the schema and returns
\* (True, packed record) otherwise
convert_v1_to_v2_raises(item) == ~item.full \/ ~ValidOutcome(item.winner)

RECURSIVE DecodeFrom(_, _, _, _, _)
DecodeFrom(fmt, cands, k, draws, i) ==
    IF i > Len(cands) THEN [out |-> <<>>, err |-> FALSE]
    ELSE IF ~Kept(k, draws[i]) THEN DecodeFrom(fmt, cands, k, draws, i + 1)
    ELSE IF fmt = "v1" /\ convert_v1_to_v2_raises(cands[i]) THEN [out |-> <<>>, err |-> TRUE]
    ELSE LET rest == DecodeFrom(fmt, cands, k, draws, i + 1)
         IN  [out |-> <<cands[i]>> \o rest.out, err |-> rest.err]

\* the records the generator yields for one blob, in order, and whether it then
\* raises; draws[i] is the random draw made for candidate i
convert_chunkdata_to_v2(blob, pos, k, draws) ==
    IF blob.fmt = "inval" THEN [out |-> <<>>, err |-> FALSE]
    ELSE DecodeFrom(blob.fmt, Candidates(blob, pos), k, draws, 1)

Draws(blob, k) ==
    [1..(blob.n + (IF blob.bad = "tail" THEN 1 ELSE 0)) -> (IF k > 1 THEN 0..(k - 1) ELSE {0})]

\* ------------------------------------------------------------- workers
Workers == 1..workers

\* the state of the task loop once the decoder generator has q left to yield
AfterYield(q, err) == IF q # <<>> THEN "send" ELSE IF err THEN "died" ELSE "pull"

\* chunkdata = chunkdatasrc.next(); None ends the loop; otherwise the decoder
\* generator is started on the blob
task_pull(w) ==
    /\ w \in Workers
    /\ wpc[w] = "pull"
    /\ IF items[w] = <<>>
       THEN /\ wpc' = [wpc EXCEPT ![w] = "exited"]
            /\ UNCHANGED <<items, pulled, wq, werr>>
       ELSE LET pos == Len(items[w])
                blob == items[w][pos]
            IN  \E draws \in Draws(blob, sample) :
                  LET d == convert_chunkdata_to_v2(blob, pos, sample, draws)
                  IN  /\ items' = [items EXCEPT ![w] = SubSeq(items[w], 1, pos - 1)]
                      /\ pulled' = [pulled EXCEPT ![pos] = @ + 1]
                      /\ wq' = [wq EXCEPT ![w] = d.out]
                      /\ werr' = [werr EXCEPT ![w] = d.err]
                      /\ wpc' = [wpc EXCEPT ![w] = AfterYield(d.out, d.err)]
    /\ UNCHANGED <<chan, sent>>
    /\ UNCHANGED <<cfgvars, cvars, bvars, uvars, mvars, fvars, pvars>>

\* faulty variant: the worker sends the decoder's pending records last first
task_send_last(w) ==
    /\ w \in Workers
    /\ wpc[w] = "send"
    /\ Len(chan[w]) < ChanCap
    /\ chan' = [chan EXCEPT ![w] = Append(@, wq[w][Len(wq[w])])]
    /\ sent' = [sent EXCEPT ![w] = Append(@, wq[w][Len(wq[w])])]
    /\ wq' = [wq EXCEPT ![w] = SubSeq(@, 1, Len(@) - 1)]
    /\ wpc' = [wpc EXCEPT ![w] = AfterYield(Tail(wq[w]), werr[w])]
    /\ UNCHANGED <<items, pulled, werr>>
    /\ UNCHANGED <<cfgvars, cvars, bvars, uvars, mvars, fvars, pvars>>

\* faulty variant: send_bytes never blocks, the pipe takes any number of records
task_send_unbounded(w) ==
    /\ w \in Workers
    /\ wpc[w] = "send"
    /\ chan' = [chan EXCEPT ![w] = Append(@, Head(wq[w]))]
    /\ sent' = [sent EXCEPT ![w] = Append(@, Head(wq[w]))]
    /\ wq' = [wq EXCEPT ![w] = Tail(@)]
    /\ wpc' = [wpc EXCEPT ![w] = AfterYield(Tail(wq[w]), werr[w])]
    /\ UNCHANGED <<items, pulled, werr>>
    /\ UNCHANGED <<cfgvars, cvars, bvars, uvars, mvars, fvars, pvars>>

\* writer.send_bytes(item): blocks while the pipe is full
task_send(w) ==
    /\ w \in Workers
    /\ wpc[w] = "send"
    /\ Len(chan[w]) < ChanCap
    /\ chan' = [chan EXCEPT ![w] = Append(@, Head(wq[w]))]
    /\ sent' = [sent EXCEPT ![w] = Append(@, Head(wq[w]))]
    /\ wq' = [wq EXCEPT ![w] = Tail(@)]
    /\ wpc' = [wpc EXCEPT ![w] = AfterYield(Tail(wq[w]), werr[w])]
    /\ UNCHANGED <<items, pulled, werr>>
    /\ UNCHANGED <<cfgvars, cvars, bvars, uvars, mvars, fvars, pvars>>

\* faulty variant: the parent keeps its copy of the write end, so the end of the
\* worker process does not close the pipe
ClosedNever(w) == wpc[w] \in {}

\* the write end of w's pipe is closed: the process has ended
Closed(w) == wpc[w] \in {"exited", "died"}


\* ------------------------------------------------------- shuffle buffer
(* shufflebuffer.ShuffleBuffer: a buffer is the sequence of its resident    *)
(* records, slot by slot; its occupancy is the sequence's length.           *)

\* faulty variant: the buffer is built one slot larger than shuffle_size
CapacityPlusOne == shuffle_size + 1

\* sb.ShuffleBuffer(self.v2_struct.size, self.shuffle_size)
Capacity == shuffle_size

\* below capacity: the record goes to the next free slot, no output;
\* at capacity: the record at the drawn slot is the output, r takes its slot
insert_or_replace(buf, cap, r, slot) ==
    IF Len(buf) < cap
    THEN [buf |-> Append(buf, r), out |-> <<>>]
    ELSE [buf |-> [buf EXCEPT ![slot] = r], out |-> <<buf[slot]>>]

\* pops one resident record; no output once the buffer is empty
extract(buf, slot) ==
    IF buf = <<>>
    THEN [buf |-> <<>>, out |-> <<>>]
    ELSE [buf |-> RemoveAt(buf, slot), out |-> <<buf[slot]>>]

\* --------------------------------------------------- tuple_gen, batch_gen
\* the length of one record's share of each batch buffer (the model keeps the
\* three fields of different lengths, as planes, probs and winner are)
Stride == [planes |-> 2, probs |-> 1, winner |-> 1]

\* struct.unpack of a record of the wrong size raises; so does the assertion
\* on the outcome
convert_v2_to_tuple_raises(content) == ~content.full \/ ~ValidOutcome(content.winner)

\* (planes, probs, winner)
convert_v2_to_tuple(content) ==
    [planes |-> content.planes, probs |-> content.probs, winner |-> <<content.winner>>]

\* faulty variant: the probabilities are joined in the reverse of the pull order
JoinProbsReversed(s) ==
    [planes |-> Flatten([i \in DOMAIN s |-> s[i].planes]),
     probs |-> Flatten([i \in DOMAIN s |-> s[Len(s) + 1 - i].probs]),
     winner |-> Flatten([i \in DOMAIN s |-> s[i].winner])]

\* ( b''.join([x[0] for x in s]), b''.join([x[1] for x in s]), b''.join([x[2] for x in s]) )
Join(s) ==
    [planes |-> Flatten([i \in DOMAIN s |-> s[i].planes]),
     probs |-> Flatten([i \in DOMAIN s |-> s[i].probs]),
     winner |-> Flatten([i \in DOMAIN s |-> s[i].winner])]

\* batch_gen has pulled one more tuple t: islice returns once it holds
\* batch_size of them, and the batch is yielded
batch_gen_next(t) ==
    LET s == Append(cur, t)
    IN  IF Len(s) = batch_size
        THEN /\ batches' = Append(batches, Join(s))
             /\ cur' = <<>>
        ELSE /\ batches' = batches
             /\ cur' = s

\* the upstream generator has ended: islice returns what it holds;
\* only an empty list ends batch_gen
batch_gen_end ==
    /\ batches' = IF Len(cur) = 0 THEN batches ELSE Append(batches, Join(cur))
    /\ cur' = <<>>

\* what the caller's iteration does with v2_gen's output: `out` is the record
\* yielded (<<>> when none), `ended` says v2_gen returned
Downstream(out, ended) ==
    IF entry = "v2_gen" THEN UNCHANGED bvars
    ELSE IF out # <<>>
    THEN IF convert_v2_to_tuple_raises(out[1].data)
         THEN bpc' = "raised" /\ UNCHANGED <<cur, batches>>
         ELSE batch_gen_next(convert_v2_to_tuple(out[1].data)) /\ bpc' = bpc
    ELSE IF ended
    THEN batch_gen_end /\ bpc' = "done"
    ELSE UNCHANGED bvars

\* ---------------------------------------------------------------- v2_gen
\* v2_gen runs only while its caller asks for the next item
Driven == entry = "v2_gen" \/ bpc = "run"

\* faulty variant: the displaced record is never yielded
YieldSwallow(out) == yielded

\* if s is None: continue / yield s
Yield(out) == yielded \o out

\* faulty variant: the reader that follows the removed one in the list, which
\* the list iterator steps over, is dropped with it
RemoveAndNext(rs, r) ==
    LET i == CHOOSE k \in DOMAIN rs : rs[k] = r
    IN  SubSeq(rs, 1, i - 1) \o SubSeq(rs, i + 2, Len(rs))

\* faulty variant: the reader that reported EOF stays in the list
RemoveNothing(rs, r) == rs

\* self.readers.remove(r)
Remove(rs, r) == SelectSeq(rs, LAMBDA x : x # r)

\* faulty variant: a single pass over the readers, without the enclosing while loop
AdvanceOnePass(rs, i) ==
    IF i < Len(rs) THEN <<i, "poll">> ELSE <<0, "drain">>

\* the list iterator's next index and the while test: (ri', cpc')
Advance(rs, i) ==
    IF i < Len(rs) THEN <<i, "poll">>
    ELSE IF Len(rs) > 0 THEN <<0, "poll">>
    ELSE <<0, "drain">>

\* one iteration of "for r in self.readers": a record is received, put in the
\* shuffle buffer and the displaced record (if any) yielded
v2_gen_recv ==
    /\ cpc = "poll" /\ Driven
    /\ LET r == readers[ri + 1]
       IN  /\ chan[r] # <<>>
           /\ LET s == [id |-> Len(inserted) + 1, data |-> Head(chan[r])]
              IN  \E slot \in 1..Capacity :
                    LET res == insert_or_replace(sbuff, Capacity, s, slot)
                    IN  /\ sbuff' = res.buf
                        /\ yielded' = Yield(res.out)
                        /\ Downstream(res.out, FALSE)
                        /\ inserted' = Append(inserted, s)
           /\ chan' = [chan EXCEPT ![r] = Tail(@)]
           /\ ri' = Advance(readers, ri + 1)[1]
           /\ cpc' = Advance(readers, ri + 1)[2]
           /\ UNCHANGED readers
    /\ UNCHANGED <<items, pulled, wpc, wq, werr, sent>>
    /\ UNCHANGED <<cfgvars, uvars, mvars, fvars, pvars>>

\* except EOFError: the pipe is empty and its write end closed
v2_gen_eof ==
    /\ cpc = "poll" /\ Driven
    /\ LET r == readers[ri + 1]
       IN  /\ chan[r] = <<>> /\ Closed(r)
           /\ readers' = Remove(readers, r)
           /\ ri' = Advance(Remove(readers, r), ri + 1)[1]
           /\ cpc' = Advance(Remove(readers, r), ri + 1)[2]
    /\ UNCHANGED <<sbuff, inserted, yielded>>
    /\ UNCHANGED <<cfgvars, wvars, bvars, uvars, mvars, fvars, pvars>>

\* faulty variant: v2_gen returns without draining the shuffle buffer
v2_gen_return_undrained ==
    /\ cpc = "drain" /\ Driven
    /\ cpc' = "done"
    /\ Downstream(<<>>, TRUE)
    /\ UNCHANGED <<readers, ri, sbuff, inserted, yielded>>
    /\ UNCHANGED <<cfgvars, wvars, uvars, mvars, fvars, pvars>>

\* drain the shuffle buffer: s = sbuff.extract(); None ends v2_gen
v2_gen_drain ==
    /\ cpc = "drain" /\ Driven
    /\ \E slot \in 1..(IF sbuff = <<>> THEN 1 ELSE Len(sbuff)) :
         LET res == extract(sbuff, slot)
         IN  /\ sbuff' = res.buf
             /\ yielded' = Yield(res.out)
             /\ cpc' = IF res.out = <<>> THEN "done" ELSE "drain"
             /\ Downstream(res.out, res.out = <<>>)
    /\ UNCHANGED <<readers, ri, inserted>>
    /\ UNCHANGED <<cfgvars, wvars, uvars, mvars, fvars, pvars>>

\* ------------------------------------------------------ the specification
Zero(n) == [i \in 1..n |-> 0]

\* ChunkParser.__init__: each worker process is started with its own copy of
\* the chunk source (the arguments of mp.Process are handed to the child)
Init ==
    /\ workers \in 1..MaxWorkers
    /\ shuffle_size \in 1..MaxShuffle
    /\ batch_size \in 1..MaxBatch
    /\ sample \in 1..MaxSample
    /\ entry \in {"v2_gen", "parse"}
    /\ chunks \in SeqsUpTo(Blobs, MaxBlobs)
    /\ items = [w \in 1..workers |-> chunks]
    /\ pulled = Zero(Len(chunks))
    /\ wpc = [w \in 1..workers |-> "pull"]
    /\ wq = [w \in 1..workers |-> <<>>]
    /\ werr = [w \in 1..workers |-> FALSE]
    /\ chan = [w \in 1..workers |-> <<>>]
    /\ sent = [w \in 1..workers |-> <<>>]
    /\ readers = [w \in 1..workers |-> w]
    /\ ri = 0
    /\ sbuff = <<>>
    /\ cpc = "poll"
    /\ inserted = <<>>
    /\ yielded = <<>>
    /\ cur = <<>>
    /\ batches = <<>>
    /\ bpc = "run"
    /\ usrc = <<>> /\ ublob = <<>> /\ uk = 1 /\ udec = "idle"
    /\ ui = 0 /\ udraws = <<>> /\ uout = <<>>
    /\ usb = <<>> /\ ufed = 0 /\ uemit = <<>>
    /\ utup = <<>> /\ utpc = "run"
    /\ mfile = <<>> /\ mblob = <<>> /\ margs = <<>>
    /\ mi = 0 /\ mout = <<>> /\ mpc = "idle" /\ mmaps = <<>>
    /\ ffiles = <<>> /\ fkind = <<>> /\ fchunks = <<>> /\ fdone = <<>> /\ fret = <<>>
    /\ plen = 0 /\ pbatch = 0 /\ ptell = 0 /\ pdata = <<>> /\ pidx = 0 /\ pout = <<>>

Next ==
    \/ \E w \in Workers : task_pull(w)
    \/ \E w \in Workers : task_send(w)
    \/ v2_gen_recv
    \/ v2_gen_eof
    \/ v2_gen_drain

Spec == Init /\ [][Next]_vars


\* the processes are scheduled by the operating system, each runnable one
\* eventually runs; the caller keeps iterating the generator it asked for
FairSpec ==
    /\ Spec
    /\ \A w \in 1..MaxWorkers : WF_vars(task_pull(w)) /\ WF_vars(task_send(w))
    /\ WF_vars(v2_gen_recv)
    /\ WF_vars(v2_gen_eof)
    /\ WF_vars(v2_gen_drain)

\* ------------------------------------------- record layout, bytes and text
\* The definitions from here to USpec model the converters on the bytes and
\* the text they work on: a byte is a number in 0..255, a text line is the
\* sequence of its whitespace-separated tokens, a token the sequence of its
\* character codes.
DATA_ITEM_LINES == 121
NumPlanes == 112
NumProbs == 1924
ByteMax == 255
V2Version == 2

VERSION == <<V2Version, 0, 0, 0>>
\* faulty variant: the marker written most significant byte first
INVALIDATED_BE == <<0, 0, 0, 1>>
\* b'\1\0\0\0'
INVALIDATED == <<1, 0, 0, 0>>
\* struct.Struct('4s7696s896sBBBBBBBb').size
V2Size == 4 + 4 * NumProbs + 8 * NumPlanes + 7 + 1
ProbsAt == 4
PlanesAt == ProbsAt + 4 * NumProbs
IntsAt == PlanesAt + 8 * NumPlanes
WinnerAt == IntsAt + 7

\* bytearray.fromhex
HexVal(c) ==
    IF c \in 48..57 THEN c - 48
    ELSE IF c \in 97..102 THEN c - 87
    ELSE c - 55
\* faulty variant: the low hex digit of a byte is taken first
fromhex_swapped(hex_string) ==
    [i \in 1..(Len(hex_string) \div 2) |->
        16 * HexVal(hex_string[2 * i]) + HexVal(hex_string[2 * i - 1])]
fromhex(hex_string) ==
    [i \in 1..(Len(hex_string) \div 2) |->
        16 * HexVal(hex_string[2 * i - 1]) + HexVal(hex_string[2 * i])]

\* np.unpackbits and np.packbits: most significant bit first
unpackbits(bs) ==
    [i \in 1..(8 * Len(bs)) |->
        (bs[((i - 1) \div 8) + 1] \div (2 ^ (7 - ((i - 1) % 8)))) % 2]
packbits(bits) ==
    [j \in 1..(Len(bits) \div 8) |->
        LET b(t) == bits[8 * (j - 1) + t]
        IN  128 * b(1) + 64 * b(2) + 32 * b(3) + 16 * b(4)
            + 8 * b(5) + 4 * b(6) + 2 * b(7) + b(8)]

\* int(text): an optional minus sign, then decimal digits
RECURSIVE ParseNat(_)
ParseNat(tok) ==
    IF tok = <<>> THEN 0
    ELSE 10 * ParseNat(SubSeq(tok, 1, Len(tok) - 1)) + (tok[Len(tok)] - 48)
int(tok) == IF tok[1] = 45 THEN 0 - ParseNat(Tail(tok)) ELSE ParseNat(tok)

\* a number read from a decimal literal: num / den, or not-a-number
NaNToken == <<110, 97, 110>>
DotAt(tok) ==
    IF \E i \in DOMAIN tok : tok[i] = 46
    THEN CHOOSE i \in DOMAIN tok : tok[i] = 46
    ELSE 0
ParseDecimal(tok) ==
    IF tok = NaNToken THEN [nan |-> TRUE, neg |-> FALSE, num |-> 0, den |-> 1]
    ELSE IF DotAt(tok) = 0
    THEN [nan |-> FALSE, neg |-> FALSE, num |-> ParseNat(tok), den |-> 1]
    ELSE LET d == DotAt(tok)
         IN  [nan |-> FALSE, neg |-> FALSE,
              num |-> ParseNat(SubSeq(tok, 1, d - 1) \o SubSeq(tok, d + 1, Len(tok))),
              den |-> 10 ^ (Len(tok) - d)]

RECURSIVE GCD(_, _)
GCD(a, b) == IF b = 0 THEN a ELSE GCD(b, a % b)

\* astype(np.float32): the nearest number m / 2^s with a 24-bit m, ties to
\* even; the result is [nan, neg, m, s], m = 0 for zero
float32(q) ==
    IF q.nan THEN [nan |-> TRUE, neg |-> FALSE, m |-> 0, s |-> 0]
    ELSE IF q.num = 0 THEN [nan |-> FALSE, neg |-> FALSE, m |-> 0, s |-> 0]
    ELSE LET g == GCD(q.num, q.den)
             num == q.num \div g
             den == q.den \div g
             s == CHOOSE e \in 0..30 : (num * (2 ^ e)) \div den >= 2 ^ 23
             quo == (num * (2 ^ s)) \div den
             rem == (num * (2 ^ s)) % den
             up == 2 * rem > den \/ (2 * rem = den /\ quo % 2 = 1)
             m == IF up THEN quo + 1 ELSE quo
         IN  IF m = 2 ^ 24
             THEN [nan |-> FALSE, neg |-> q.neg, m |-> 2 ^ 23, s |-> s - 1]
             ELSE [nan |-> FALSE, neg |-> q.neg, m |-> m, s |-> s]

\* tobytes() of a float32, little-endian IEEE 754
ToBytes32(fl) ==
    IF fl.nan THEN <<0, 0, 192, 127>>
    ELSE IF fl.m = 0 THEN <<0, 0, 0, 0>>
    ELSE LET e == 150 - fl.s
         IN  <<fl.m % 256, (fl.m \div 256) % 256,
               ((fl.m \div 65536) % 128) + 128 * (e % 2),
               (e \div 2) + (IF fl.neg THEN 128 ELSE 0)>>

\* np.frombuffer(dtype=np.float32) of four bytes
FromBytes32(b) ==
    LET e == 2 * (b[4] % 128) + (b[3] \div 128)
        frac == 65536 * (b[3] % 128) + 256 * b[2] + b[1]
    IN  IF e = 255 /\ frac # 0 THEN [nan |-> TRUE, neg |-> FALSE, m |-> 0, s |-> 0]
        ELSE IF e = 0 /\ frac = 0 THEN [nan |-> FALSE, neg |-> FALSE, m |-> 0, s |-> 0]
        ELSE [nan |-> FALSE, neg |-> b[4] >= 128, m |-> frac + 2 ^ 23, s |-> 150 - e]

\* struct 'b': a signed byte, two's complement
PackInt8(v) == (v + 256) % 256
UnpackInt8(b) == IF b >= 128 THEN b - 256 ELSE b

\* --------------------------------------------------------- the converters
\* flat_planes[i] = bytes([i] * 64), for i in range(256)
flat_planes(i) == [b \in 1..64 |-> i]

\* struct 'B' takes 0..255 only, struct.error otherwise
FitsUInt8(v) == v \in 0..ByteMax

\* faulty variant: the value is handed to struct.pack as it was read
ClampNothing(v) == v

\* faulty variant: the value is cut to its low byte
ClampWraps(v) == v % 256

\* min(int(text), 255)
Clamp(v) == IF v < ByteMax THEN v ELSE ByteMax

\* faulty variant: the two castling flags of the side to move are read in
\* the other order
v1_ints_swapped(text_item) ==
    [j \in 1..7 |->
        LET v == int(text_item[NumPlanes + (IF j = 1 THEN 2 ELSE IF j = 2 THEN 1 ELSE j)][1])
        IN  IF j >= 6 THEN IF v < ByteMax THEN v ELSE ByteMax ELSE v]

\* the seven integers after the planes: us_ooo, us_oo, them_ooo, them_oo,
\* stm, rule50_count, move_count
v1_ints(text_item) ==
    [j \in 1..7 |->
        LET v == int(text_item[NumPlanes + j][1])
        IN  IF j >= 6 THEN Clamp(v) ELSE v]

\* the planes: 112 hex lines, unpacked, concatenated and packed again
v1_planes(text_item) ==
    packbits(Flatten([p \in 1..NumPlanes |->
                         unpackbits(fromhex(text_item[p][1]))]))

\* the probabilities: text_item[119].split(), astype(np.float32), tobytes()
v1_probs(text_item) ==
    LET toks == text_item[NumPlanes + 8]
        vals == [t \in DOMAIN toks |-> ToBytes32(float32(ParseDecimal(toks[t])))]
    IN  [i \in 1..(4 * Len(toks)) |-> vals[((i - 1) \div 4) + 1][((i - 1) % 4) + 1]]

v1_winner(text_item) == int(text_item[NumPlanes + 9][1])

\* convert_v1_to_v2 raises: a line is missing (IndexError), an assert fails,
\* or struct.pack refuses a field
convert_v1_to_v2_bytes_raises(text_item) ==
    \/ Len(text_item) < DATA_ITEM_LINES
    \/ Len(text_item[NumPlanes + 8]) # NumProbs
    \/ ~ValidOutcome(v1_winner(text_item))
    \/ \E j \in 1..7 : ~FitsUInt8(v1_ints(text_item)[j])

\* v2_struct.pack(VERSION, probs, planes, us_ooo, ..., move_count, winner)
convert_v1_to_v2_bytes(text_item) ==
    VERSION \o v1_probs(text_item) \o v1_planes(text_item)
        \o v1_ints(text_item) \o <<PackInt8(v1_winner(text_item))>>

\* convert_v2_to_tuple raises: struct.unpack refuses a content of another
\* length, or the winner assert fails
convert_v2_to_tuple_bytes_raises(content) ==
    \/ Len(content) # V2Size
    \/ ~ValidOutcome(UnpackInt8(content[WinnerAt + 1]))

IntToFloat(v) ==
    float32([nan |-> FALSE, neg |-> v < 0, num |-> IF v < 0 THEN 0 - v ELSE v,
             den |-> 1])

\* faulty variant: the planes of rule50_count and move_count change places
convert_v2_to_tuple_bytes_swapped(content) ==
    [planes |-> unpackbits(SubSeq(content, PlanesAt + 1, IntsAt))
                    \o Flatten([j \in 1..5 |-> flat_planes(content[IntsAt + j])])
                    \o flat_planes(content[IntsAt + 7])
                    \o flat_planes(content[IntsAt + 6])
                    \o flat_planes(0),
     probs |-> SubSeq(content, ProbsAt + 1, PlanesAt),
     winner |-> ToBytes32(IntToFloat(UnpackInt8(content[WinnerAt + 1])))]

\* (planes, probs, winner) as packed tensors
convert_v2_to_tuple_bytes(content) ==
    [planes |-> unpackbits(SubSeq(content, PlanesAt + 1, IntsAt))
                    \o Flatten([j \in 1..7 |-> flat_planes(content[IntsAt + j])])
                    \o flat_planes(0),
     probs |-> SubSeq(content, ProbsAt + 1, PlanesAt),
     winner |-> ToBytes32(IntToFloat(UnpackInt8(content[WinnerAt + 1])))]

\* ------------------------------------------------------- positions, chunks
\* A position as the tests build it (generate_fake_pos): 112 planes of 64
\* bits, seven integers, a policy vector of decimal literals, a winner.
RECURSIVE Str(_)
Str(n) ==
    IF n < 0 THEN <<45>> \o Str(0 - n)
    ELSE IF n < 10 THEN <<48 + n>>
    ELSE Str(n \div 10) \o <<48 + (n % 10)>>

PlaneBits(pat, p) == [b \in 1..64 |-> IF (p * pat + b) % 5 = 0 THEN 1 ELSE 0]

Lit01 == <<48, 46, 49>>
Lit05 == <<48, 46, 53>>
Lit03 == <<48, 46, 51>>
PolicyOf(kind) ==
    [i \in 1..(IF kind = "short" THEN NumProbs - 1 ELSE NumProbs) |->
        IF kind = "frac" /\ i = 1 THEN Lit01
        ELSE IF kind = "frac" /\ i = 2 THEN Lit05
        ELSE IF kind = "frac" /\ i = 3 THEN Lit03
        ELSE IF kind = "nan" /\ i = 2 THEN NaNToken
        ELSE IF i % 400 = 1 THEN Str((i \div 400) + 1)
        ELSE Str(0)]

Positions ==
    << [pat |-> 1, ints |-> <<1, 0, 1, 0, 1, 0, 30>>, pol |-> "ints", winner |-> 1],
       [pat |-> 2, ints |-> <<0, 1, 0, 1, 0, 150, 255>>, pol |-> "frac", winner |-> -1],
       [pat |-> 4, ints |-> <<0, 0, 0, 0, 0, 99, 1>>, pol |-> "nan", winner |-> 1],
       [pat |-> 3, ints |-> <<1, 1, 0, 0, 1, 300, 256>>, pol |-> "ints", winner |-> 0],
       [pat |-> 1, ints |-> <<1, 0, 0, 1, 1, 7, 12>>, pol |-> "ints", winner |-> 2],
       [pat |-> 2, ints |-> <<0, 0, 1, 1, 0, 50, 60>>, pol |-> "short", winner |-> 0] >>

\* v1_gen: the 121 text lines of a position
HexChar(n) == IF n < 10 THEN 48 + n ELSE 87 + n
hex(bs) ==
    [i \in 1..(2 * Len(bs)) |->
        LET b == bs[((i - 1) \div 2) + 1]
        IN  HexChar(IF i % 2 = 1 THEN b \div 16 ELSE b % 16)]
v1_gen(pos) ==
    [p \in 1..NumPlanes |-> <<hex(packbits(PlaneBits(pos.pat, p)))>>]
        \o [j \in 1..7 |-> <<Str(pos.ints[j])>>]
        \o <<PolicyOf(pos.pol)>>
        \o <<<<Str(pos.winner)>>>>

\* the v2 record that holds a position, field by field as init_structs
\* lays them out
PackV2(pos) ==
    LET pol == PolicyOf(pos.pol)
        vals == [t \in DOMAIN pol |-> ToBytes32(float32(ParseDecimal(pol[t])))]
    IN  VERSION
          \o [i \in 1..(4 * Len(pol)) |-> vals[((i - 1) \div 4) + 1][((i - 1) % 4) + 1]]
          \o packbits([i \in 1..(64 * NumPlanes) |->
                          PlaneBits(pos.pat, ((i - 1) \div 64) + 1)[((i - 1) % 64) + 1]])
          \o [j \in 1..7 |-> pos.ints[j] % 256]
          \o <<PackInt8(pos.winner)>>
\* ------------------------------------------- one chunk through one parser
\* The byte-level run: one chunk is decoded by convert_chunkdata_to_v2 as
\* task drives it, its records go through the shuffle buffer of v2_gen and
\* each record v2_gen yields is converted by tuple_gen.
Min(a, b) == IF a < b THEN a ELSE b

\* a chunk is built from 0..U_MaxRecs consecutive positions of the table,
\* as text or as v2 records, possibly cut off in the next record, possibly
\* carrying the invalidation marker in place of the version
Sources ==
    {s \in [form : {"v1", "v2", "inval"}, first : DOMAIN Positions,
            n : 0..U_MaxRecs, tail : BOOLEAN] :
        /\ (s.n = 0 => s.first = 1)
        /\ (s.form # "v1" =>
              \A i \in 1..s.n :
                 Positions[((s.first + i - 2) % Len(Positions)) + 1].pol # "short")}
PositionsOf(s) ==
    [i \in 1..s.n |-> Positions[((s.first + i - 2) % Len(Positions)) + 1]]

ChunkOf(s) ==
    IF s.form = "v1"
    THEN [text |-> TRUE, bytes |-> <<>>,
          lines |-> Flatten([i \in 1..s.n |-> v1_gen(PositionsOf(s)[i])])
                      \o (IF s.tail THEN SubSeq(v1_gen(Positions[1]), 1, TailLines)
                          ELSE <<>>)]
    ELSE LET body == Flatten([i \in 1..s.n |-> PackV2(PositionsOf(s)[i])])
                       \o (IF s.tail THEN SubSeq(PackV2(Positions[1]), 1, TailBytes)
                           ELSE <<>>)
         IN  [text |-> FALSE, lines |-> <<>>,
              bytes |-> IF s.form = "inval"
                        THEN <<1, 0, 0, 0>> \o SubSeq(body, 5, Len(body))
                        ELSE body]

\* chunkdata[0:4]
Head4(chunkdata) ==
    IF chunkdata.text
    THEN IF chunkdata.lines = <<>> THEN <<>>
         ELSE SubSeq(chunkdata.lines[1][1], 1, Min(4, Len(chunkdata.lines[1][1])))
    ELSE SubSeq(chunkdata.bytes, 1, Min(4, Len(chunkdata.bytes)))

\* chunkdata.splitlines(): the lines of a text chunk; a binary chunk that
\* gets here is cut at its newline bytes (\n, \r, \r\n) and each piece is a
\* line that is no ASCII text
BinaryLine == << <<ByteMax>> >>
LineEnds(bs) ==
    {i \in DOMAIN bs :
        bs[i] = 10 \/ (bs[i] = 13 /\ ~(i < Len(bs) /\ bs[i + 1] = 10))}
splitlines(chunkdata) ==
    IF chunkdata.text THEN chunkdata.lines
    ELSE LET bs == chunkdata.bytes
             n == Cardinality(LineEnds(bs))
                    + (IF bs = <<>> \/ Len(bs) \in LineEnds(bs) THEN 0 ELSE 1)
         IN  [i \in 1..n |-> BinaryLine]

\* [str(line, 'ascii') for line in item] raises UnicodeDecodeError on a
\* byte above 127
ascii_raises(item) ==
    \E l \in DOMAIN item : \E t \in DOMAIN item[l] :
        \E c \in DOMAIN item[l][t] : item[l][t][c] > 127

\* faulty variant: the window starts one byte late
WindowOffByOne(bs, i) == SubSeq(bs, i + 2, Min(i + 1 + V2Size, Len(bs)))
\* chunkdata[i:i+self.v2_struct.size]
Window(bs, i) == SubSeq(bs, i + 1, Min(i + V2Size, Len(bs)))

\* faulty variant: the group is cut one line short
GroupOneLineShort(lines, i) ==
    SubSeq(lines, i + 1, Min(i + DATA_ITEM_LINES - 1, Len(lines)))
\* file_chunkdata[i:i+DATA_ITEM_LINES]
Group(lines, i) == SubSeq(lines, i + 1, Min(i + DATA_ITEM_LINES, Len(lines)))

\* random.randint(0, self.sample-1); no draw is made unless self.sample > 1
DrawsOf(k) == IF k > 1 THEN 0..(k - 1) ELSE {0}

\* the generator returns at once on the invalidation marker
dec_invalidated ==
    /\ udec = "run"
    /\ Head4(ublob) = INVALIDATED
    /\ udec' = "returned"
    /\ UNCHANGED <<usrc, ublob, uk, ui, udraws, uout, usb, ufed, uemit, utup, utpc>>
    /\ UNCHANGED <<cfgvars, wvars, cvars, bvars, mvars, fvars, pvars>>

\* one turn of the loop over the v2 records of the chunk
dec_v2 ==
    /\ udec = "run"
    /\ Head4(ublob) = VERSION
    /\ IF ui * V2Size >= Len(ublob.bytes)
       THEN udec' = "returned" /\ UNCHANGED <<ui, udraws, uout>>
       ELSE \E draw \in DrawsOf(uk) :
              /\ ui' = ui + 1
              /\ udraws' = Append(udraws, draw)
              /\ uout' = IF Kept(uk, draw)
                         THEN Append(uout, Window(ublob.bytes, ui * V2Size))
                         ELSE uout
              /\ udec' = udec
    /\ UNCHANGED <<usrc, ublob, uk, usb, ufed, uemit, utup, utpc>>
    /\ UNCHANGED <<cfgvars, wvars, cvars, bvars, mvars, fvars, pvars>>

\* one turn of the loop over the 121-line groups of the chunk
dec_v1 ==
    /\ udec = "run"
    /\ Head4(ublob) # INVALIDATED /\ Head4(ublob) # VERSION
    /\ LET file_chunkdata == splitlines(ublob)
       IN  IF ui * DATA_ITEM_LINES >= Len(file_chunkdata)
           THEN udec' = "returned" /\ UNCHANGED <<ui, udraws, uout>>
           ELSE \E draw \in DrawsOf(uk) :
                  LET item == Group(file_chunkdata, ui * DATA_ITEM_LINES)
                  IN  /\ ui' = ui + 1
                      /\ udraws' = Append(udraws, draw)
                      /\ IF ~Kept(uk, draw)
                         THEN udec' = udec /\ uout' = uout
                         ELSE IF ascii_raises(item) \/ convert_v1_to_v2_bytes_raises(item)
                         THEN udec' = "raised" /\ uout' = uout
                         ELSE /\ udec' = udec
                              /\ uout' = Append(uout, convert_v1_to_v2_bytes(item))
    /\ UNCHANGED <<usrc, ublob, uk, usb, ufed, uemit, utup, utpc>>
    /\ UNCHANGED <<cfgvars, wvars, cvars, bvars, mvars, fvars, pvars>>

\* tuple_gen converts each record v2_gen yields; a raising conversion ends
\* the chain of generators
UnitDownstream(out) ==
    IF out = <<>> THEN UNCHANGED <<utup, utpc>>
    ELSE IF convert_v2_to_tuple_bytes_raises(out[1])
    THEN utpc' = "raised" /\ utup' = utup
    ELSE utpc' = utpc /\ utup' = Append(utup, convert_v2_to_tuple_bytes(out[1]))

\* v2_gen receives the next record the worker sent and hands it to the
\* shuffle buffer
unit_feed ==
    /\ utpc = "run"
    /\ ufed < Len(uout)
    /\ \E slot \in 1..U_Shuffle :
         LET res == insert_or_replace(usb, U_Shuffle, uout[ufed + 1], slot)
         IN  /\ usb' = res.buf
             /\ uemit' = uemit \o res.out
             /\ UnitDownstream(res.out)
    /\ ufed' = ufed + 1
    /\ UNCHANGED <<usrc, ublob, uk, udec, ui, udraws, uout>>
    /\ UNCHANGED <<cfgvars, wvars, cvars, bvars, mvars, fvars, pvars>>

\* the worker has ended and every record it sent was received: v2_gen
\* drains the shuffle buffer
unit_drain ==
    /\ utpc = "run"
    /\ udec # "run"
    /\ ufed = Len(uout)
    /\ usb # <<>>
    /\ \E slot \in 1..Len(usb) :
         LET res == extract(usb, slot)
         IN  /\ usb' = res.buf
             /\ uemit' = uemit \o res.out
             /\ UnitDownstream(res.out)
    /\ UNCHANGED <<usrc, ublob, uk, udec, ui, udraws, uout, ufed>>
    /\ UNCHANGED <<cfgvars, wvars, cvars, bvars, mvars, fvars, pvars>>

\* a parser with no chunk of its own: the pipeline variables stay as
\* __init__ leaves them
UInit ==
    /\ workers = 1 /\ shuffle_size = 1 /\ batch_size = 1 /\ sample = 1
    /\ entry = "v2_gen"
    /\ chunks = <<>>
    /\ items = <<chunks>>
    /\ pulled = <<>>
    /\ wpc = <<"pull">> /\ wq = << <<>> >> /\ werr = <<FALSE>>
    /\ chan = << <<>> >> /\ sent = << <<>> >>
    /\ readers = <<1>> /\ ri = 0 /\ sbuff = <<>> /\ cpc = "poll"
    /\ inserted = <<>> /\ yielded = <<>>
    /\ cur = <<>> /\ batches = <<>> /\ bpc = "run"
    /\ usrc \in Sources
    /\ ublob = ChunkOf(usrc)
    /\ uk \in 1..U_MaxSample
    /\ udec = "run"
    /\ ui = 0 /\ udraws = <<>> /\ uout = <<>>
    /\ usb = <<>> /\ ufed = 0 /\ uemit = <<>>
    /\ utup = <<>> /\ utpc = "run"
    /\ mfile = <<>> /\ mblob = <<>> /\ margs = <<>>
    /\ mi = 0 /\ mout = <<>> /\ mpc = "idle" /\ mmaps = <<>>
    /\ ffiles = <<>> /\ fkind = <<>> /\ fchunks = <<>> /\ fdone = <<>> /\ fret = <<>>
    /\ plen = 0 /\ pbatch = 0 /\ ptell = 0 /\ pdata = <<>> /\ pidx = 0 /\ pout = <<>>

UNext ==
    \/ dec_invalidated
    \/ dec_v2
    \/ dec_v1
    \/ unit_feed
    \/ unit_drain

USpec == UInit /\ [][UNext]_vars

\* ------------------------------------------------ the record format migrator
\* convert_to_v3.py: main reads one file and rewrites each of its v2 records
\* into the v3 layout.
V2_BYTES == 8604
V3_BYTES == 8280
NUM_HIST == 8
NUM_PIECE_TYPES == 6
V2_NUM_PLANES == NUM_PIECE_TYPES * 2 + 2
V3_NUM_PLANES == NUM_PIECE_TYPES * 2 + 1
V2_NUM_POLICY_MOVES == 1924
V3_NUM_POLICY_MOVES == 1858
V3Version == 3
\* chunkparser.VERSION3, the tag of the v3 layout
VERSION3 == <<V3Version, 0, 0, 0>>

\* The move tables. A move is the token of its algebraic string: the
\* character codes of from-file, from-rank, to-file, to-rank and, for a
\* promotion, the piece letter. The new table holds the 1792 queen-line
\* and knight moves and the 66 promotions of the side moving up the board;
\* the old table holds the same 1792 moves in another order and the 132
\* promotions of both sides.
Abs(x) == IF x < 0 THEN 0 - x ELSE x
MoveToken(ff, fr, tf, tr) == <<97 + ff, 49 + fr, 97 + tf, 49 + tr>>
OnLine(ff, fr, tf, tr) ==
    LET df == Abs(ff - tf)
        dr == Abs(fr - tr)
    IN  /\ df + dr > 0
        /\ \/ df = 0 \/ dr = 0 \/ df = dr
           \/ (df = 1 /\ dr = 2) \/ (df = 2 /\ dr = 1)
PromotionLetters == <<113, 114, 98>>
\* the promotions from rank fr to rank tr, by from-file, to-file and piece
Promotions(fr, tr) ==
    LET all == [c \in 1..72 |->
                   LET ff == (c - 1) \div 9
                       tf == ff - 1 + (((c - 1) % 9) \div 3)
                   IN  [ok |-> tf \in 0..7,
                        tok |-> MoveToken(ff, fr, tf, tr)
                                  \o <<PromotionLetters[((c - 1) % 3) + 1]>>]]
        kept == SelectSeq(all, LAMBDA e : e.ok)
    IN  [i \in DOMAIN kept |-> kept[i].tok]
\* the queen-line and knight moves, ordered by from-square or by to-square
BoardMoves(fromMajor) ==
    LET all == [c \in 1..4096 |->
                   LET a == (c - 1) \div 64
                       b == (c - 1) % 64
                       from == IF fromMajor THEN a ELSE b
                       to == IF fromMajor THEN b ELSE a
                   IN  [ok |-> OnLine(from \div 8, from % 8, to \div 8, to % 8),
                        tok |-> MoveToken(from \div 8, from % 8, to \div 8, to % 8)]]
        kept == SelectSeq(all, LAMBDA e : e.ok)
    IN  [i \in DOMAIN kept |-> kept[i].tok]
\* new_movelist.txt and old_movelist.txt, one move per line
new_movelist == BoardMoves(TRUE) \o Promotions(6, 7)
old_movelist == BoardMoves(FALSE) \o Promotions(6, 7) \o Promotions(1, 0)

\* m.translate(str.maketrans("12345678", "87654321"))
translate(m) == [i \in DOMAIN m |-> IF m[i] \in 49..56 THEN 105 - m[i] ELSE m[i]]

\* init_move_map builds the maps from the lines of the two files; indices
\* count from 0, and of two equal lines the later one gives the index
init_move_map(new_moves, old_moves) ==
    [new_rev_white_move_map |->
        [idx \in 0..(Len(new_moves) - 1) |-> new_moves[idx + 1]],
     new_rev_black_move_map |->
        [idx \in 0..(Len(new_moves) - 1) |-> translate(new_moves[idx + 1])],
     old_rev_move_map |->
        [idx \in 0..(Len(old_moves) - 1) |-> old_moves[idx + 1]],
     old_move_map |->
        [m \in Range(old_moves) |->
            Len(old_moves) - 1
              - (CHOOSE back \in 0..(Len(old_moves) - 1) :
                    old_moves[Len(old_moves) - back] = m)]]
\* self.old_move_map[move], a defaultdict(lambda:-1): a move the old table
\* does not hold has index -1
old_move_idx_of(maps, move) ==
    IF move \in DOMAIN maps.old_move_map THEN maps.old_move_map[move] ELSE -1

\* content[a:b] for 0 <= a: the slice is cut at the end of the content
Cut(content, a, b) == SubSeq(content, a + 1, Min(b, Len(content)))

\* v2_struct.unpack(content) raises struct.error unless the content has the
\* size of the struct
unpack_v2_raises(content) == Len(content) # V2_BYTES

\* the move a slot of the new encoding stands for, for the side to move
move_of_slot_white_only(maps, us_black, new_move_idx) ==
    maps.new_rev_white_move_map[new_move_idx]
move_of_slot(maps, us_black, new_move_idx) ==
    IF us_black # 0
    THEN maps.new_rev_black_move_map[new_move_idx]
    ELSE maps.new_rev_white_move_map[new_move_idx]

\* the loop over new_move_idx: four bytes of the content for each slot
remap_probs(maps, content, idx, us_black) ==
    LET n == Cardinality(DOMAIN maps.new_rev_white_move_map)
        picks == [new_move_idx \in 0..(n - 1) |->
                     LET move == move_of_slot(maps, us_black, new_move_idx)
                         old_move_idx == old_move_idx_of(maps, move)
                     IN  Cut(content, idx + old_move_idx * 4,
                             idx + old_move_idx * 4 + 4)]
    IN  [k \in 1..(4 * n) |-> picks[(k - 1) \div 4][((k - 1) % 4) + 1]]

\* faulty variant: the bytes are left in their order
reversed_kept(bs) == bs
\* bytes(reversed(...))
reversed(bs) == [k \in DOMAIN bs |-> bs[Len(bs) + 1 - k]]

\* faulty variant: the plane after the single-repetition plane is taken
reps2_plane(content, idx, hist) ==
    Cut(content, idx + hist * V2_NUM_PLANES * 8 + 13 * 8,
        idx + hist * V2_NUM_PLANES * 8 + 13 * 8 + 8)
\* the reps=1 plane of a history ply
reps1_plane(content, idx, hist) ==
    Cut(content, idx + hist * V2_NUM_PLANES * 8 + 12 * 8,
        idx + hist * V2_NUM_PLANES * 8 + 12 * 8 + 8)

\* the planes of one history ply: the two groups of six piece planes, us
\* first on an even ply and them first, each plane reversed, on an odd
\* one, then the reps=1 plane
rewrite_ply(content, idx, hist) ==
    LET flip == hist % 2 = 1
        us_offset == IF flip THEN NUM_PIECE_TYPES ELSE 0
        them_offset == IF flip THEN 0 ELSE NUM_PIECE_TYPES
        offsets == <<us_offset, them_offset>>
        piece(o, i) ==
            LET start == idx + hist * V2_NUM_PLANES * 8 + offsets[o] * 8 + i * 8
            IN  IF flip THEN reversed(Cut(content, start, start + 8))
                ELSE Cut(content, start, start + 8)
    IN  Flatten([t \in 1..(2 * NUM_PIECE_TYPES) |->
                    piece(((t - 1) \div NUM_PIECE_TYPES) + 1,
                          (t - 1) % NUM_PIECE_TYPES)])
          \o reps1_plane(content, idx, hist)

\* struct.pack("f", rule50_count/100)
pack_rule50(rule50_count) ==
    ToBytes32(float32([nan |-> FALSE, neg |-> FALSE, num |-> rule50_count,
                       den |-> 100]))

\* faulty variant: the five bytes are taken one byte late
castling_and_side_late(content, idx) == Cut(content, idx + 1, idx + 6)
\* us_ooo, us_oo, them_ooo, them_oo, us_black
castling_and_side(content, idx) == Cut(content, idx, idx + 5)

\* faulty variant: no byte is appended
pack_unused_nothing == <<>>
\* struct.pack("B", 0)
pack_unused == <<0>>

\* convert_v2_to_v3: the bytes written to fout for one v2 record
convert_v2_to_v3(maps, content) ==
    LET us_black == content[IntsAt + 5]
        rule50_count == content[IntsAt + 6]
        idx1 == 4
        idx2 == idx1 + V2_NUM_POLICY_MOVES * 4
        idx3 == idx2 + NUM_HIST * V2_NUM_PLANES * 8
    IN  VERSION3
          \o remap_probs(maps, content, idx1, us_black)
          \o Flatten([h \in 1..NUM_HIST |-> rewrite_ply(content, idx2, h - 1)])
          \o pack_rule50(rule50_count)
          \o castling_and_side(content, idx3)
          \o Cut(content, idx3 + 6, idx3 + 8)
          \o pack_unused

\* the size of this_struct: v2_struct for version <= 2, v3_struct otherwise
struct_size(version) == IF version <= 2 THEN V2_BYTES ELSE V3_BYTES

\* a & b # 0 for two bytes
BitsMeet(a, b) ==
    \E t \in 0..7 : (a \div (2 ^ t)) % 2 = 1 /\ (b \div (2 ^ t)) % 2 = 1

\* display_v2_or_v3 raises: on a content of another size than the struct,
\* on a version tag that is not self.version, on a square that two piece
\* planes of one ply claim (the assert of update_board), on a reps=1 plane
\* that is neither empty nor full, and for v2 on a reps=2 plane that is not
\* empty
display_raises(version, content) ==
    LET NUM_PLANES == IF version <= 2 THEN V2_NUM_PLANES ELSE V3_NUM_PLANES
        moves == IF version <= 2 THEN V2_NUM_POLICY_MOVES ELSE V3_NUM_POLICY_MOVES
        planes == Cut(content, 4 + 4 * moves, 4 + 4 * moves + NUM_HIST * NUM_PLANES * 8)
        plane(start) == Cut(planes, start, start + 8)
        reps == plane(NUM_PLANES * 8 + 12 * 8)
    IN  \/ Len(content) # struct_size(version)
        \/ Cut(content, 0, 4) # <<version, 0, 0, 0>>
        \/ \E hist \in 0..(NUM_HIST - 1) :
             \E p, q \in 0..(2 * NUM_PIECE_TYPES - 1) :
                /\ p < q
                /\ \E k \in 1..8 :
                      BitsMeet(plane(hist * NUM_PLANES * 8 + p * 8)[k],
                               plane(hist * NUM_PLANES * 8 + q * 8)[k])
        \/ (reps # [k \in 1..8 |-> 0] /\ reps # [k \in 1..8 |-> ByteMax])
        \/ /\ version <= 2
           /\ \E hist \in 0..(NUM_HIST - 1) :
                 plane(hist * NUM_PLANES * 8 + 13 * 8) # [k \in 1..8 |-> 0]

\* ------------------------------------------------------ the migrator's input
\* The v2 records the input files are built from. The policy holds at old
\* index i the number (i + 1) / 2048, which no other index holds; "legal"
\* leaves at zero the moves that have no slot for the side to move. The
\* "board" planes put every square on at most one piece plane of a ply,
\* with an empty or full reps=1 plane and an empty reps=2 plane; the
\* "dense" planes are 112 different planes.
M_Records ==
    << [stm |-> 0, r50 |-> 0, mc |-> 0, castle |-> <<1, 1, 1, 1>>, winner |-> 1,
        pol |-> "legal", planes |-> "board"],
       [stm |-> 1, r50 |-> 100, mc |-> 0, castle |-> <<1, 0, 0, 1>>, winner |-> -1,
        pol |-> "legal", planes |-> "board"],
       [stm |-> 0, r50 |-> 50, mc |-> 37, castle |-> <<0, 1, 1, 0>>, winner |-> 0,
        pol |-> "legal", planes |-> "dense"],
       [stm |-> 1, r50 |-> 150, mc |-> 0, castle |-> <<0, 0, 0, 0>>, winner |-> 1,
        pol |-> "legal", planes |-> "board"],
       [stm |-> 0, r50 |-> 99, mc |-> 0, castle |-> <<0, 0, 1, 1>>, winner |-> -1,
        pol |-> "ramp", planes |-> "board"],
       [stm |-> 1, r50 |-> 255, mc |-> 255, castle |-> <<1, 1, 0, 0>>, winner |-> 0,
        pol |-> "ramp", planes |-> "dense"] >>

NewVocabulary == Range(new_movelist)
\* the old move has a slot in the new encoding for the side to move
HasSlot(stm, move) ==
    IF stm # 0 THEN translate(move) \in NewVocabulary ELSE move \in NewVocabulary

\* the float32 bytes of k / 2048, 0 < k < 2048
Dyadic(k) ==
    LET t == CHOOSE e \in 0..23 : k * (2 ^ e) >= 2 ^ 23
    IN  ToBytes32([nan |-> FALSE, neg |-> FALSE, m |-> k * (2 ^ t), s |-> 11 + t])

PolicyBytes(rec) ==
    LET vals == [i \in 1..V2_NUM_POLICY_MOVES |->
                    IF rec.pol = "legal" /\ ~HasSlot(rec.stm, old_movelist[i])
                    THEN <<0, 0, 0, 0>>
                    ELSE Dyadic(i)]
    IN  [k \in 1..(4 * V2_NUM_POLICY_MOVES) |-> vals[((k - 1) \div 4) + 1][((k - 1) % 4) + 1]]

PlaneBytes(rec) ==
    [n \in 1..(NUM_HIST * V2_NUM_PLANES * 8) |->
        LET hist == (n - 1) \div (V2_NUM_PLANES * 8)
            p == ((n - 1) \div 8) % V2_NUM_PLANES
            k == (n - 1) % 8
        IN  IF rec.planes = "dense" THEN 1 + (((p + V2_NUM_PLANES * hist) * 8 + k) % 251)
            ELSE IF p = 13 THEN 0
            ELSE IF p = 12 THEN (IF hist \in {1, 2} THEN ByteMax ELSE 0)
            ELSE IF (p - 8 * k - hist) % 16 \in 0..7
                 THEN 2 ^ ((p - 8 * k - hist) % 16)
                 ELSE 0]

\* the v2 record of a description, laid out as v2_struct packs it
MigRecord(rec) ==
    VERSION \o PolicyBytes(rec) \o PlaneBytes(rec)
        \o rec.castle \o <<rec.stm, rec.r50, rec.mc, PackInt8(rec.winner)>>

\* The files main is run on: 0..M_MaxRecs consecutive records of the table
\* as a v2 file, possibly with the tag of its later records overwritten
\* ("mixed"), possibly cut off in the next record; the same file with the
\* invalidation marker; the v3 file the migrator makes of it; or the text
\* of positions. The flags are those __main__ can pass on.
Flags ==
    {f \in [display : BOOLEAN, convert : BOOLEAN] : f.display \/ f.convert}
Files ==
    {f \in [form : {"v2", "mixed", "inval", "v3", "v1"}, first : DOMAIN M_Records,
            n : 0..M_MaxRecs, tail : BOOLEAN] :
        /\ (f.n = 0 => f.first = 1 /\ f.form = "v2")
        /\ (f.tail => f.form = "v2")
        /\ (f.form = "mixed" => f.n > 1)
        /\ (f.form = "v1" =>
              \A i \in 1..f.n :
                 Positions[((f.first + i - 2) % Len(Positions)) + 1].pol # "short")}
RecordsOf(f) ==
    [i \in 1..f.n |-> MigRecord(M_Records[((f.first + i - 2) % Len(M_Records)) + 1])]
FileOf(maps, f) ==
    IF f.form = "v1"
    THEN [text |-> TRUE, bytes |-> <<>>,
          lines |-> Flatten([i \in 1..f.n |->
                       v1_gen(Positions[((f.first + i - 2) % Len(Positions)) + 1])])]
    ELSE LET recs == RecordsOf(f)
             tagged(i) ==
                 IF f.form = "inval" /\ i = 1
                 THEN <<1, 0, 0, 0>> \o SubSeq(recs[i], 5, Len(recs[i]))
                 ELSE IF f.form = "mixed" /\ i > 1
                 THEN <<V3Version, 0, 0, 0>> \o SubSeq(recs[i], 5, Len(recs[i]))
                 ELSE IF f.form = "v3" THEN convert_v2_to_v3(maps, recs[i])
                 ELSE recs[i]
         IN  [text |-> FALSE, lines |-> <<>>,
              bytes |-> Flatten([i \in 1..f.n |-> tagged(i)])
                          \o (IF f.tail
                              THEN SubSeq(MigRecord(M_Records[1]), 1, TailBytes)
                              ELSE <<>>)]

\* one record of the file is displayed and converted, as the flags say;
\* a raising call ends main
Handle(content) ==
    IF margs.display /\ display_raises(2, content)
    THEN mpc' = "raised" /\ mout' = mout
    ELSE IF ~margs.convert THEN mpc' = mpc /\ mout' = mout
    ELSE IF unpack_v2_raises(content)
    THEN mpc' = "raised" /\ mout' = mout
    ELSE mpc' = mpc /\ mout' = Append(mout, convert_v2_to_v3(mmaps, content))

\* chunkdata[0:4] == b'\1\0\0\0': "Invalid version" is printed
main_invalid ==
    /\ mpc = "run"
    /\ Head4(mblob) = <<1, 0, 0, 0>>
    /\ mpc' = "done"
    /\ UNCHANGED <<mfile, mblob, margs, mi, mout, mmaps>>
    /\ UNCHANGED <<cfgvars, wvars, cvars, bvars, uvars, fvars, pvars>>

\* one turn of the loop over the V2_BYTES windows of a file that starts
\* with the v2 tag
main_v2 ==
    /\ mpc = "run"
    /\ Head4(mblob) = VERSION
    /\ IF mi * V2_BYTES >= Len(mblob.bytes)
       THEN mpc' = "done" /\ UNCHANGED <<mi, mout>>
       ELSE /\ Handle(Cut(mblob.bytes, mi * V2_BYTES, mi * V2_BYTES + V2_BYTES))
            /\ mi' = mi + 1
    /\ UNCHANGED <<mfile, mblob, margs, mmaps>>
    /\ UNCHANGED <<cfgvars, wvars, cvars, bvars, uvars, fvars, pvars>>

\* one turn of the loop over the V3_BYTES windows of a file that starts
\* with the v3 tag: with --convert it raises "Convert from V3 to V3?"
main_v3 ==
    /\ mpc = "run"
    /\ Head4(mblob) = VERSION3
    /\ IF mi * V3_BYTES >= Len(mblob.bytes)
       THEN mpc' = "done" /\ mi' = mi
       ELSE /\ mpc' = IF \/ margs.display
                            /\ display_raises(3, Cut(mblob.bytes, mi * V3_BYTES,
                                                     mi * V3_BYTES + V3_BYTES))
                         \/ margs.convert
                      THEN "raised" ELSE mpc
            /\ mi' = mi + 1
    /\ UNCHANGED <<mfile, mblob, margs, mout, mmaps>>
    /\ UNCHANGED <<cfgvars, wvars, cvars, bvars, uvars, fvars, pvars>>

\* any other file is taken for text: one turn of the loop over the records
\* convert_chunkdata_to_v2 yields, made by a parser with sample = 1
main_text ==
    /\ mpc = "run"
    /\ Head4(mblob) # <<1, 0, 0, 0>> /\ Head4(mblob) # VERSION
    /\ Head4(mblob) # VERSION3
    /\ LET file_chunkdata == splitlines(mblob)
       IN  IF mi * DATA_ITEM_LINES >= Len(file_chunkdata)
           THEN mpc' = "drain" /\ UNCHANGED <<mi, mout>>
           ELSE LET item == Group(file_chunkdata, mi * DATA_ITEM_LINES)
                IN  /\ mi' = mi + 1
                    /\ IF ascii_raises(item) \/ convert_v1_to_v2_bytes_raises(item)
                       THEN mpc' = "raised" /\ mout' = mout
                       ELSE Handle(convert_v1_to_v2_bytes(item))
    /\ UNCHANGED <<mfile, mblob, margs, mmaps>>
    /\ UNCHANGED <<cfgvars, wvars, cvars, bvars, uvars, fvars, pvars>>

\* for _ in parser.parse(): the batches of the text file's own parser are
\* read and thrown away
main_drain ==
    /\ mpc = "drain"
    /\ mpc' = "done"
    /\ UNCHANGED <<mfile, mblob, margs, mi, mout, mmaps>>
    /\ UNCHANGED <<cfgvars, wvars, cvars, bvars, uvars, fvars, pvars>>

\* main on one file; the parsers of the pipeline stay as __init__ leaves
\* them
MInit ==
    /\ mmaps = init_move_map(new_movelist, old_movelist)
    /\ workers = 1 /\ shuffle_size = 1 /\ batch_size = 1 /\ sample = 1
    /\ entry = "v2_gen"
    /\ chunks = <<>>
    /\ items = <<chunks>>
    /\ pulled = <<>>
    /\ wpc = <<"pull">> /\ wq = << <<>> >> /\ werr = <<FALSE>>
    /\ chan = << <<>> >> /\ sent = << <<>> >>
    /\ readers = <<1>> /\ ri = 0 /\ sbuff = <<>> /\ cpc = "poll"
    /\ inserted = <<>> /\ yielded = <<>>
    /\ cur = <<>> /\ batches = <<>> /\ bpc = "run"
    /\ usrc = <<>> /\ ublob = <<>> /\ uk = 1 /\ udec = "idle"
    /\ ui = 0 /\ udraws = <<>> /\ uout = <<>>
    /\ usb = <<>> /\ ufed = 0 /\ uemit = <<>>
    /\ utup = <<>> /\ utpc = "run"
    /\ mfile \in Files
    /\ mblob = FileOf(mmaps, mfile)
    /\ margs \in Flags
    /\ mi = 0 /\ mout = <<>> /\ mpc = "run"
    /\ ffiles = <<>> /\ fkind = <<>> /\ fchunks = <<>> /\ fdone = <<>> /\ fret = <<>>
    /\ plen = 0 /\ pbatch = 0 /\ ptell = 0 /\ pdata = <<>> /\ pidx = 0 /\ pout = <<>>

MNext ==
    \/ main_invalid
    \/ main_v2
    \/ main_v3
    \/ main_text
    \/ main_drain

MSpec == MInit /\ [][MNext]_vars

\* ------------------------------------------------ FileDataSrc (train.py)
\* A file is named by its number; fkind says what gzip does with it: "ok"
\* opens and reads, "noopen" makes gzip.open raise, "badgz" opens and then
\* makes read() raise. next() returns <<>> for None and <<f>> for the
\* content of file f.
FileKinds == {"ok", "noopen", "badgz"}

\* random.shuffle(self.chunks): any order of the same files
Shuffles(s) == {t \in [1..Len(s) -> Range(s)] : BagOf(t) = BagOf(s)}

\* faulty variant: the file that was read is not put on the done list
next_loop_forgets(c, d, kind) ==
    IF c = <<>> THEN [chunks |-> c, done |-> d, ret |-> <<>>]
    ELSE [chunks |-> SubSeq(c, 1, Len(c) - 1), done |-> d, ret |-> <<c[Len(c)]>>]

\* while len(self.chunks): filename = self.chunks.pop(); the file is appended
\* to done once gzip.open has succeeded, and returned once read() has; an
\* exception of either is swallowed and the loop goes on; a loop that runs out
\* of files falls off the end of the function, which returns None
RECURSIVE next_loop(_, _, _)
next_loop(c, d, kind) ==
    IF c = <<>> THEN [chunks |-> c, done |-> d, ret |-> <<>>]
    ELSE LET filename == c[Len(c)]
             rest == SubSeq(c, 1, Len(c) - 1)
         IN  IF kind[filename] = "ok"
             THEN [chunks |-> rest, done |-> Append(d, filename), ret |-> <<filename>>]
             ELSE IF kind[filename] = "badgz"
             THEN next_loop(rest, Append(d, filename), kind)
             ELSE next_loop(rest, d, kind)

\* FileDataSrc.next: an empty chunks list is swapped with done and shuffled;
\* if it is still empty None is returned, else the loop runs
FileDataSrc_next ==
    /\ Len(fret) < F_MaxCalls
    /\ \E c \in (IF fchunks = <<>> THEN Shuffles(fdone) ELSE {fchunks}) :
         LET d == IF fchunks = <<>> THEN <<>> ELSE fdone
             r == next_loop(c, d, fkind)
         IN  /\ fchunks' = r.chunks
             /\ fdone' = r.done
             /\ fret' = Append(fret, r.ret)
    /\ UNCHANGED <<ffiles, fkind>>
    /\ UNCHANGED <<cfgvars, wvars, cvars, bvars, uvars, mvars, pvars>>

\* FileDataSrc.__init__: self.chunks = [], self.done = chunks
FInit ==
    /\ workers = 1 /\ shuffle_size = 1 /\ batch_size = 1 /\ sample = 1
    /\ entry = "v2_gen"
    /\ chunks = <<>>
    /\ items = <<chunks>>
    /\ pulled = <<>>
    /\ wpc = <<"pull">> /\ wq = << <<>> >> /\ werr = <<FALSE>>
    /\ chan = << <<>> >> /\ sent = << <<>> >>
    /\ readers = <<1>> /\ ri = 0 /\ sbuff = <<>> /\ cpc = "poll"
    /\ inserted = <<>> /\ yielded = <<>>
    /\ cur = <<>> /\ batches = <<>> /\ bpc = "run"
    /\ usrc = <<>> /\ ublob = <<>> /\ uk = 1 /\ udec = "idle"
    /\ ui = 0 /\ udraws = <<>> /\ uout = <<>>
    /\ usb = <<>> /\ ufed = 0 /\ uemit = <<>>
    /\ utup = <<>> /\ utpc = "run"
    /\ mfile = <<>> /\ mblob = <<>> /\ margs = <<>>
    /\ mi = 0 /\ mout = <<>> /\ mpc = "idle" /\ mmaps = <<>>
    /\ ffiles \in {[i \in 1..n |-> i] : n \in 0..F_MaxFiles}
    /\ fkind \in [1..Len(ffiles) -> FileKinds]
    /\ fchunks = <<>>
    /\ fdone = ffiles
    /\ fret = <<>>
    /\ plen = 0 /\ pbatch = 0 /\ ptell = 0 /\ pdata = <<>> /\ pidx = 0 /\ pout = <<>>

FNext == FileDataSrc_next

FSpec == FInit /\ [][FNext]_vars

\* ------------------------------------- BinaryParser (supervised_parse.py)
\* A byte string read from the file is kept as the sequence of file extents
\* [from, to) it is made of, in order; adjacent extents that continue each
\* other are one extent.
example_len == 15438

\* len(data)
RECURSIVE ExtLen(_)
ExtLen(data) == IF data = <<>> THEN 0 ELSE (data[1].to - data[1].from) + ExtLen(Tail(data))

\* a + b on byte strings
Concat(a, b) ==
    IF a = <<>> THEN b
    ELSE IF b = <<>> THEN a
    ELSE IF a[Len(a)].to = b[1].from
    THEN SubSeq(a, 1, Len(a) - 1) \o <<[from |-> a[Len(a)].from, to |-> b[1].to]>> \o Tail(b)
    ELSE a \o b

\* data[lo:hi] for 0 <= lo <= hi: the slice is cut at the end of the data
RECURSIVE ByteSlice(_, _, _)
ByteSlice(data, lo, hi) ==
    IF data = <<>> \/ hi <= 0 THEN <<>>
    ELSE LET n == data[1].to - data[1].from
             a == IF lo < 0 THEN 0 ELSE lo
             head == IF a < n /\ a < hi
                     THEN <<[from |-> data[1].from + a,
                             to |-> data[1].from + (IF hi < n THEN hi ELSE n)]>>
                     ELSE <<>>
         IN  Concat(head, ByteSlice(Tail(data), lo - n, hi - n))

\* self.f.read(size) at position tell of a file of flen bytes: the bytes up to
\* the end of the file at most
read(flen, tell, size) ==
    LET to == IF tell + size < flen THEN tell + size ELSE flen
    IN  IF to > tell THEN <<[from |-> tell, to |-> to]>> ELSE <<>>

\* the body of "while True" up to the for loop: (data, self.f.tell())
cache_a_batch(flen, tell, chunk_size) ==
    LET size == IF chunk_size < flen - tell THEN chunk_size ELSE flen - tell
        first == read(flen, tell, size)
    IN  IF size < chunk_size
        THEN LET second == read(flen, 0, chunk_size - size)
             IN  [data |-> Concat(first, second), tell |-> ExtLen(second)]
        ELSE [data |-> first, tell |-> tell + size]

\* one next() on the generator parse_chunk returns: a batch is read when the
\* for loop of the last one has ended, and item pidx of the batch is yielded
parse_chunk_next ==
    /\ plen > 0
    /\ Len(pout) < P_MaxItems
    /\ LET fresh == pidx = pbatch
           batch == IF fresh THEN cache_a_batch(plen, ptell, example_len * pbatch)
                    ELSE [data |-> pdata, tell |-> ptell]
           i == IF fresh THEN 0 ELSE pidx
       IN  /\ pdata' = batch.data
           /\ ptell' = batch.tell
           /\ pidx' = i + 1
           /\ pout' = Append(pout, ByteSlice(batch.data, i * example_len,
                                             i * example_len + example_len))
    /\ UNCHANGED <<plen, pbatch>>
    /\ UNCHANGED <<cfgvars, wvars, cvars, bvars, uvars, mvars, fvars>>

\* BinaryParser.__init__ on a file of 1..P_MaxExamples examples, and the
\* generator parse_chunk() before its first next()
PInit ==
    /\ workers = 1 /\ shuffle_size = 1 /\ batch_size = 1 /\ sample = 1
    /\ entry = "v2_gen"
    /\ chunks = <<>>
    /\ items = <<chunks>>
    /\ pulled = <<>>
    /\ wpc = <<"pull">> /\ wq = << <<>> >> /\ werr = <<FALSE>>
    /\ chan = << <<>> >> /\ sent = << <<>> >>
    /\ readers = <<1>> /\ ri = 0 /\ sbuff = <<>> /\ cpc = "poll"
    /\ inserted = <<>> /\ yielded = <<>>
    /\ cur = <<>> /\ batches = <<>> /\ bpc = "run"
    /\ usrc = <<>> /\ ublob = <<>> /\ uk = 1 /\ udec = "idle"
    /\ ui = 0 /\ udraws = <<>> /\ uout = <<>>
    /\ usb = <<>> /\ ufed = 0 /\ uemit = <<>>
    /\ utup = <<>> /\ utpc = "run"
    /\ mfile = <<>> /\ mblob = <<>> /\ margs = <<>>
    /\ mi = 0 /\ mout = <<>> /\ mpc = "idle" /\ mmaps = <<>>
    /\ ffiles = <<>> /\ fkind = <<>> /\ fchunks = <<>> /\ fdone = <<>> /\ fret = <<>>
    /\ plen \in {n * example_len : n \in 1..P_MaxExamples}
    /\ pbatch \in 1..P_MaxBatch
    /\ ptell = 0
    /\ pdata = <<>>
    /\ pidx = pbatch
    /\ pout = <<>>

PNext == parse_chunk_next

PSpec == PInit /\ [][PNext]_vars

\* ------------------------------------------------------------- the claims
DataOf(s) == [i \in DOMAIN s |-> s[i].data]
AllSent == Flatten([w \in 1..workers |-> sent[w]])
NoDuplicates(s) == \A i, j \in DOMAIN s : i # j => s[i] # s[j]

\* C1: once v2_gen has drained the shuffle buffer and returned, the records it
\* got back from insert_or_replace and extract are exactly the records it
\* inserted: as many, none twice, none missing, none made up.
C1_Conservation ==
    cpc = "done" =>
        /\ Len(yielded) = Len(inserted)
        /\ NoDuplicates(yielded)
        /\ BagOf(yielded) = BagOf(inserted)
        /\ sbuff = <<>>

C1_Witness ==
    /\ cpc = "done"
    /\ shuffle_size = 2
    /\ Len(inserted) >= shuffle_size + 2
    /\ yielded # inserted

\* C2: with a source that runs out and the processes scheduled fairly, v2_gen
\* iterated by its caller eventually returns, and by then the records it has
\* yielded are, as a multiset, exactly the records the workers wrote to their
\* pipes.
C2_Transit ==
    /\ [](cpc = "done" => BagOf(DataOf(yielded)) = BagOf(AllSent))
    /\ ((entry = "v2_gen") ~> (cpc = "done"))

C2_Witness ==
    /\ cpc = "done" /\ entry = "v2_gen"
    /\ workers = 2
    /\ Len(sent[1]) >= 2 /\ Len(sent[2]) >= 1
    /\ Len(yielded) = Len(sent[1]) + Len(sent[2])

\* C3: the pull is shared: every blob of the source is handed to at most one
\* worker, so B blobs cause B decodes in all.
C3_PulledOnce == \A b \in DOMAIN pulled : pulled[b] <= 1

Slice(buf, stride, i) == SubSeq(buf, (i - 1) * stride + 1, i * stride)
RecordsIn(batch) == Len(batch.winner) \div Stride.winner

\* C4: every batch the batcher emits holds exactly batch_size records; a
\* shorter remainder of the stream is discarded.
C4_FullBatches ==
    \A k \in DOMAIN batches :
        /\ Len(batches[k].planes) = batch_size * Stride.planes
        /\ Len(batches[k].probs) = batch_size * Stride.probs
        /\ Len(batches[k].winner) = batch_size * Stride.winner

\* C5: in every emitted batch the i-th record pulled for it fills the i-th
\* fixed-stride slice of each of the three buffers, and batch k holds the k-th
\* run of batch_size consecutive records of the stream.
C5_BatchOrder ==
    \A k \in DOMAIN batches :
        LET n == RecordsIn(batches[k])
        IN  /\ n >= 1
            /\ Len(batches[k].planes) = n * Stride.planes
            /\ Len(batches[k].probs) = n * Stride.probs
            /\ Len(batches[k].winner) = n * Stride.winner
            /\ (k - 1) * batch_size + n <= Len(yielded)
            /\ \A i \in 1..n :
                 LET t == convert_v2_to_tuple(yielded[(k - 1) * batch_size + i].data)
                 IN  /\ Slice(batches[k].planes, Stride.planes, i) = t.planes
                     /\ Slice(batches[k].probs, Stride.probs, i) = t.probs
                     /\ Slice(batches[k].winner, Stride.winner, i) = t.winner

C5_Witness ==
    /\ Len(batches) >= 2
    /\ batch_size = 2
    /\ RecordsIn(batches[1]) = 2
    /\ yielded[1].data # yielded[2].data

\* C6: the occupancy of the shuffle buffer never exceeds shuffle_size; it does
\* not shrink while v2_gen polls, and once it is shuffle_size it stays so until
\* the drain starts.
C6_Occupancy ==
    [][/\ Len(sbuff) <= shuffle_size
       /\ Len(sbuff') <= shuffle_size
       /\ (cpc' = "poll") => (Len(sbuff') >= Len(sbuff))
       /\ (Len(sbuff) = shuffle_size /\ cpc' = "poll") => (Len(sbuff') = shuffle_size)]_vars

C6_Witness ==
    /\ cpc = "poll"
    /\ shuffle_size = 2
    /\ Len(sbuff) = shuffle_size
    /\ Len(yielded) >= 2

\* C7: an insert below capacity stores the record in the next free slot and has
\* no output; an insert at capacity outputs one record that was resident (not
\* the incoming one), stores the incoming record in its slot and changes no
\* other slot. So the first shuffle_size inserts yield nothing and each later
\* one yields exactly one record.
C7_InsertOrReplace ==
    [][(inserted' # inserted) =>
         LET r == inserted'[Len(inserted')]
         IN  /\ inserted' = Append(inserted, r)
             /\ IF Len(sbuff) < shuffle_size
                THEN /\ sbuff' = Append(sbuff, r)
                     /\ yielded' = yielded
                ELSE \E slot \in 1..shuffle_size :
                       /\ yielded' = Append(yielded, sbuff[slot])
                       /\ sbuff[slot] # r
                       /\ sbuff' = [sbuff EXCEPT ![slot] = r]
             /\ Len(yielded') = (IF Len(inserted') > shuffle_size
                                 THEN Len(inserted') - shuffle_size ELSE 0)]_vars

C7_Witness ==
    /\ cpc = "poll"
    /\ shuffle_size = 2
    /\ Len(inserted) >= shuffle_size + 2
    /\ yielded[1] = inserted[2]
    /\ sbuff[2] = inserted[Len(inserted)]

\* C8: a reader that reports end-of-stream is removed from the poll set, only
\* polled readers are read and the poll set only shrinks; the drain starts only
\* once the poll set is empty, returns every resident record once and then ends
\* v2_gen, which yields nothing afterwards.
C8_PollThenDrain ==
    [][/\ Range(readers') \subseteq Range(readers)
       /\ \A w \in Workers : (Len(chan'[w]) < Len(chan[w])) => (w \in Range(readers))
       /\ (cpc = "poll" /\ inserted' = inserted /\ (ri' # ri \/ cpc' # cpc \/ readers' # readers)) =>
             LET r == readers[ri + 1]
             IN  /\ chan[r] = <<>> /\ Closed(r)
                 /\ readers' = SelectSeq(readers, LAMBDA x : x # r)
       /\ (cpc' \in {"drain", "done"}) => (readers' = <<>>)
       /\ (Len(sbuff') < Len(sbuff)) => (cpc = "drain" /\ readers = <<>>)
       /\ (cpc = "drain" /\ (cpc' # cpc \/ yielded' # yielded \/ sbuff' # sbuff)) =>
             IF sbuff = <<>>
             THEN cpc' = "done" /\ yielded' = yielded /\ sbuff' = sbuff
             ELSE /\ cpc' = "drain"
                  /\ \E slot \in DOMAIN sbuff :
                       /\ yielded' = Append(yielded, sbuff[slot])
                       /\ sbuff' = RemoveAt(sbuff, slot)
       /\ (cpc = "done") => (cpc' = "done" /\ yielded' = yielded)]_vars

C8_Witness ==
    /\ cpc = "done"
    /\ workers = 2
    /\ shuffle_size = 2
    /\ Len(yielded) >= 3

\* C9: only the end-of-data value of the source ends a worker: a worker whose
\* loop has ended (its pipe reports end-of-stream) has left no blob unpulled in
\* its source, whatever the outcome of decoding the blobs before.
C9_ExitOnlyAtEndOfData ==
    \A w \in Workers : Closed(w) => (items[w] = <<>>)

WellFormed(b) == b.fmt \in {"v2", "v1"} /\ b.bad = "none"

\* C10: a malformed blob costs only itself: the worker goes on with the next
\* blob, so once v2_gen has returned (no down-sampling) every record of every
\* well-formed blob of the source has reached the consumer.
C10_LaterBlobsArrive ==
    (cpc = "done" /\ sample = 1) =>
        \A pos \in DOMAIN chunks :
            WellFormed(chunks[pos]) =>
                \A idx \in 1..chunks[pos].n :
                    \E i \in DOMAIN inserted :
                        inserted[i].data = RecordAt(chunks[pos], pos, idx)

\* ------------------------------------------- the claims on bytes and text
\* the policy vector of a v2 record, as float32 values
ProbsOf(content) ==
    [t \in 1..NumProbs |->
        FromBytes32(SubSeq(content, ProbsAt + 4 * t - 3, ProbsAt + 4 * t))]
PolicyHasNaN(content) == \E t \in 1..NumProbs : ProbsOf(content)[t].nan

\* C11: a legacy-text record whose policy line contains a not-a-number
\* value is dropped: the decoder yields no record for that line group (so
\* no record it yields from a text chunk carries a not-a-number policy
\* entry), raises no error, and goes on with the other records.
C11_NaNRecordDropped ==
    usrc.form = "v1" =>
        \A j \in DOMAIN uout : Len(uout[j]) = V2Size => ~PolicyHasNaN(uout[j])

\* C12: a chunk whose first four bytes are the invalidation marker
\* 01 00 00 00 yields no record, whatever follows the marker and whatever
\* the sampling rate: the decoder makes no draw and ends without raising,
\* which is what lets the worker that drives it go on to its next chunk.
C12_InvalidatedYieldsNothing ==
    usrc.form = "inval" =>
        /\ uout = <<>> /\ udraws = <<>>
        /\ udec \in {"run", "returned"}
C12_Witness ==
    /\ usrc.form = "inval" /\ usrc.n >= 2 /\ usrc.tail /\ uk > 1
    /\ Len(ublob.bytes) > 2 * V2Size
    /\ udec = "returned" /\ uout = <<>>

\* C13: every record the decoder yields, for any chunk, has exactly the v2
\* record length of 8604 bytes, and so has every record that reaches the
\* consumer; a binary chunk whose length is no multiple of 8604 never makes
\* the decoder yield a shorter record.
C13_FixedLength ==
    /\ \A j \in DOMAIN uout : Len(uout[j]) = V2Size
    /\ \A j \in DOMAIN uemit : Len(uemit[j]) = V2Size

\* a v2 chunk of whole records
WholeV2Chunk ==
    /\ ~ublob.text
    /\ Head4(ublob) = VERSION
    /\ Len(ublob.bytes) % V2Size = 0
\* C14: for a chunk that starts with the current version tag and whose
\* length is n times the record size, the decoder without down-sampling
\* yields exactly n records, the i-th (from 0) being bytes
\* [i*size, (i+1)*size) of the chunk unchanged, so that the records yielded
\* concatenate to the chunk.
C14_VerbatimWindows ==
    (WholeV2Chunk /\ uk = 1) =>
        /\ Len(uout) = ui
        /\ \A i \in DOMAIN uout :
              uout[i] = SubSeq(ublob.bytes, (i - 1) * V2Size + 1, i * V2Size)
        /\ udec # "raised"
        /\ udec = "returned" =>
              /\ Len(uout) = Len(ublob.bytes) \div V2Size
              /\ Flatten(uout) = ublob.bytes
C14_Witness ==
    /\ WholeV2Chunk /\ uk = 1
    /\ udec = "returned"
    /\ Len(uout) = U_MaxRecs
    /\ uout[1] # uout[2]

\* a text chunk of complete records that convert_v1_to_v2 accepts
WholeV1Chunk ==
    /\ usrc.form = "v1" /\ ~usrc.tail
    /\ \A i \in 1..usrc.n :
          ~convert_v1_to_v2_bytes_raises(v1_gen(PositionsOf(usrc)[i]))
\* C15: a legacy-text chunk made of n complete 121-line records, decoded
\* with no down-sampling, yields exactly n v2 records of the fixed v2
\* length, in the order of the text records; fed through a shuffle buffer
\* of capacity U_Shuffle and drained, they come out as n records in total
\* (3 in, 3 out for n = 3 and capacity 2).
C15_TextRecordsInOrder ==
    (WholeV1Chunk /\ uk = 1) =>
        /\ Len(uout) = ui
        /\ \A i \in DOMAIN uout :
              /\ Len(uout[i]) = V2Size
              /\ uout[i] = PackV2([PositionsOf(usrc)[i] EXCEPT
                                      !.ints = [j \in 1..7 |-> Min(@[j], ByteMax)]])
        /\ udec # "raised"
        /\ udec = "returned" => Len(uout) = usrc.n
        /\ (udec = "returned" /\ ufed = Len(uout) /\ usb = <<>>) =>
              /\ Len(uemit) = usrc.n
              /\ BagOf(uemit) = BagOf(uout)
C15_Witness ==
    /\ WholeV1Chunk /\ uk = 1 /\ usrc.n = 3 /\ U_Shuffle = 2
    /\ udec = "returned" /\ ufed = 3 /\ usb = <<>>
    /\ Len(uemit) = 3
    /\ uemit # uout

\* the candidates of the chunk, the record each stands for, and the
\* candidates passed so far whose draw was 0
CandidateCount ==
    IF Head4(ublob) = INVALIDATED THEN 0
    ELSE IF Head4(ublob) = VERSION
    THEN (Len(ublob.bytes) + V2Size - 1) \div V2Size
    ELSE (Len(splitlines(ublob)) + DATA_ITEM_LINES - 1) \div DATA_ITEM_LINES
CandidateRecord(i) ==
    IF Head4(ublob) = VERSION
    THEN SubSeq(ublob.bytes, (i - 1) * V2Size + 1, Min(i * V2Size, Len(ublob.bytes)))
    ELSE convert_v1_to_v2_bytes(
             SubSeq(ublob.lines, (i - 1) * DATA_ITEM_LINES + 1,
                    Min(i * DATA_ITEM_LINES, Len(ublob.lines))))
DrawnZero(i) == udraws[i] = 0
KeptCandidates == SelectSeq([i \in 1..ui |-> i], DrawnZero)
\* C16: with sampling denominator k >= 1 the decoder makes one draw in
\* [0, k) per candidate record, for binary and text chunks alike, and
\* yields the candidate if and only if its own draw is 0 (with k = 1 every
\* candidate): the records yielded are the candidates whose draw is 0, in
\* order, wherever they stand in the chunk and whatever the other draws
\* are. (A text candidate whose conversion raises ends the decoder.)
C16_KeptIffDrawZero ==
    /\ Len(udraws) = ui
    /\ \A i \in DOMAIN udraws : udraws[i] \in 0..(uk - 1)
    /\ Len(uout) = Len(KeptCandidates) - (IF udec = "raised" THEN 1 ELSE 0)
    /\ \A j \in DOMAIN uout : uout[j] = CandidateRecord(KeptCandidates[j])
    /\ udec = "returned" => ui = CandidateCount
C16_Witness ==
    /\ uk = 2 /\ udec = "returned"
    /\ udraws = <<1, 0, 1>>
    /\ Len(uout) = 1
    /\ usrc.form = "v1"

\* the i-th line group of a text chunk; groups and records outside the
\* schema; the float32 bytes of -1, 0, 1
TextItem(i) ==
    SubSeq(ublob.lines, (i - 1) * DATA_ITEM_LINES + 1,
           Min(i * DATA_ITEM_LINES, Len(ublob.lines)))
BadTextItem(item) ==
    \/ Len(item) < DATA_ITEM_LINES
    \/ Len(item[DATA_ITEM_LINES - 1]) # 1924
    \/ int(item[DATA_ITEM_LINES][1]) \notin {-1, 0, 1}
BadRecord(content) ==
    \/ Len(content) # 8604
    \/ UnpackInt8(content[Len(content)]) \notin {-1, 0, 1}
WinnerBytes == {<<0, 0, 128, 191>>, <<0, 0, 0, 0>>, <<0, 0, 128, 63>>}
\* C17: a record whose outcome is not one of -1, 0, 1 or whose policy
\* vector does not have exactly 1924 entries is never turned into an
\* output: convert_v1_to_v2 yields no v2 record for such a line group and
\* the decoder ends raising; convert_v2_to_tuple yields no tuple for such a
\* record and the chain of generators ends raising; no value is coerced.
C17_InvalidNeverConverted ==
    /\ usrc.form = "v1" =>
          /\ \A j \in DOMAIN uout : ~BadTextItem(TextItem(KeptCandidates[j]))
          /\ \A i \in 1..ui :
                (udraws[i] = 0 /\ BadTextItem(TextItem(i))) =>
                    (udec = "raised" /\ i = ui)
    /\ Len(utup) <= Len(uemit)
    /\ \A j \in DOMAIN utup :
          /\ ~BadRecord(uemit[j])
          /\ utup[j].winner \in WinnerBytes
          /\ Len(utup[j].probs) = 4 * 1924
    /\ \A j \in DOMAIN uemit :
          BadRecord(uemit[j]) => (utpc = "raised" /\ j = Len(utup) + 1)
C17_Witness ==
    /\ usrc.form = "v1"
    /\ udec = "raised"
    /\ ui = 2
    /\ Len(uout) = 1
    /\ Len(TextItem(2)) = DATA_ITEM_LINES
    /\ int(TextItem(2)[DATA_ITEM_LINES][1]) = 2

\* the position a tuple was decoded from: tuple j is the conversion of the
\* j-th record v2_gen yielded, which the decoder yielded for one candidate
OriginOf(j) ==
    PositionsOf(usrc)[KeptCandidates[CHOOSE m \in DOMAIN uout : uout[m] = uemit[j]]]
\* the fields a text record of the round trip may hold
InSchema(pos) ==
    /\ \A j \in 1..5 : pos.ints[j] \in {0, 1}
    /\ pos.ints[6] \in 0..255 /\ pos.ints[7] \in 0..255
    /\ pos.pol \in {"ints", "frac"}
    /\ pos.winner \in {-1, 0, 1}
SamePlanes(pos, tup) ==
    \A p \in 1..112 : \A b \in 1..64 :
        tup.planes[64 * (p - 1) + b] = PlaneBits(pos.pat, p)[b]
SameInts(pos, tup) ==
    \A j \in 1..7 : \A b \in 1..64 :
        tup.planes[64 * (111 + j) + b] = pos.ints[j]
\* the float32 fl is the number v (v >= 0 an integer, or num / den)
IsNumber(fl, neg, num, den) ==
    /\ ~fl.nan
    /\ IF num = 0 THEN fl.m = 0
       ELSE fl.m # 0 /\ fl.neg = neg /\ num * (2 ^ fl.s) = fl.m * den
SameOutcome(pos, tup) ==
    IsNumber(FromBytes32(tup.winner), pos.winner < 0,
             IF pos.winner < 0 THEN 0 - pos.winner ELSE pos.winner, 1)
TupleProbs(tup) ==
    [t \in 1..1924 |-> FromBytes32(SubSeq(tup.probs, 4 * t - 3, 4 * t))]
SamePolicy(pos, tup) ==
    \A t \in 1..1924 :
        LET q == ParseDecimal(PolicyOf(pos.pol)[t])
        IN  IsNumber(TupleProbs(tup)[t], FALSE, q.num, q.den)
\* fl is a float32 nearest to num / den: it has a 24-bit significand and
\* lies within half a unit of its last place of num / den
IsNearest(fl, num, den) ==
    /\ ~fl.nan
    /\ IF num = 0 THEN fl.m = 0
       ELSE /\ ~fl.neg /\ fl.m \in (2 ^ 23)..(2 ^ 24 - 1)
            /\ LET d == 2 * fl.m * den - num * (2 ^ (fl.s + 1))
               IN  d <= den /\ 0 - d <= den
RoundedPolicy(pos, tup) ==
    \A t \in 1..1924 :
        LET q == ParseDecimal(PolicyOf(pos.pol)[t])
        IN  IsNearest(TupleProbs(tup)[t], q.num, q.den)

\* C18 as stated: for any legacy-text record with 112 planes, flags in
\* {0,1}, rule50 and move count in [0,255], a 1924-entry policy vector and
\* outcome in {-1,0,1}, convert_v1_to_v2 then convert_v2_to_tuple, also
\* through the pipeline, gives back exactly the original planes, the seven
\* integer fields as constant planes, the policy vector and the outcome.
C18_ExactRoundTrip ==
    usrc.form = "v1" =>
        \A j \in DOMAIN utup :
            InSchema(OriginOf(j)) =>
                /\ SamePlanes(OriginOf(j), utup[j])
                /\ SameInts(OriginOf(j), utup[j])
                /\ SamePolicy(OriginOf(j), utup[j])
                /\ SameOutcome(OriginOf(j), utup[j])

\* C18, amended: the round trip gives back exactly the original planes, the
\* seven integer fields as constant planes and the outcome, and the policy
\* vector rounded to float32: every entry is a float32 nearest to the
\* original value (the original value itself when that is a float32).
C18_RoundTrip ==
    usrc.form = "v1" =>
        \A j \in DOMAIN utup :
            InSchema(OriginOf(j)) =>
                /\ SamePlanes(OriginOf(j), utup[j])
                /\ SameInts(OriginOf(j), utup[j])
                /\ RoundedPolicy(OriginOf(j), utup[j])
                /\ SameOutcome(OriginOf(j), utup[j])
                /\ (OriginOf(j).pol = "ints" => SamePolicy(OriginOf(j), utup[j]))
C18_Witness ==
    /\ usrc.form = "v1"
    /\ Len(utup) = 2
    /\ \A j \in 1..2 : InSchema(OriginOf(j))
    /\ \E j \in 1..2 : OriginOf(j).pol = "frac"
    /\ \E j \in 1..2 : OriginOf(j).winner = -1

\* the position the m-th yielded record of a text chunk was decoded from
YieldedFrom(m) == PositionsOf(usrc)[KeptCandidates[m]]
\* byte 8602 of a v2 record is rule50_count; plane 118 of a tuple is the
\* constant plane made of it
Rule50Byte(content) == content[8602]
Rule50Plane(tup) == SubSeq(tup.planes, 64 * 117 + 1, 64 * 118)

\* C19 as stated: a legacy-text record whose rule50 line is 150 is packed
\* into a v2 record with rule50_count clamped to 255, and unpacking that
\* record gives a rule50 value of exactly 255.
C19_Rule50Of150Is255 ==
    usrc.form = "v1" =>
        /\ \A m \in DOMAIN uout :
              YieldedFrom(m).ints[6] = 150 => Rule50Byte(uout[m]) = 255
        /\ \A j \in DOMAIN utup :
              OriginOf(j).ints[6] = 150 => Rule50Plane(utup[j]) = [b \in 1..64 |-> 255]

\* C19, amended: the rule50 line is packed as min(value, 255): 150 is
\* packed as 150 and unpacks to exactly 150; a value above 255 (300) is
\* packed as 255 and unpacks to exactly 255.
C19_Rule50ClampedAbove255 ==
    usrc.form = "v1" =>
        /\ \A m \in DOMAIN uout :
              LET r == YieldedFrom(m).ints[6]
              IN  /\ r \in 0..255 => Rule50Byte(uout[m]) = r
                  /\ r > 255 => Rule50Byte(uout[m]) = 255
        /\ \A j \in DOMAIN utup :
              LET r == OriginOf(j).ints[6]
              IN  /\ r \in 0..255 => Rule50Plane(utup[j]) = [b \in 1..64 |-> r]
                  /\ r > 255 => Rule50Plane(utup[j]) = [b \in 1..64 |-> 255]
C19_Witness ==
    /\ usrc.form = "v1"
    /\ \E j \in DOMAIN utup :
          OriginOf(j).ints[6] = 150 /\ Rule50Plane(utup[j])[1] = 150
    /\ \E j \in DOMAIN utup :
          OriginOf(j).ints[6] = 300 /\ Rule50Plane(utup[j])[1] = 255

\* the v2 chunk that holds the positions of the text chunk, and the records
\* the decoder yields for it without down-sampling
SameInV2 == ChunkOf([usrc EXCEPT !.form = "v2"])
gen2 ==
    [i \in 1..((Len(SameInV2.bytes) + V2Size - 1) \div V2Size) |->
        Window(SameInV2.bytes, (i - 1) * V2Size)]
\* a position both formats can hold
InBothFormats(pos) ==
    /\ \A j \in 1..7 : pos.ints[j] \in 0..255
    /\ pos.pol # "short"
    /\ pos.winner \in {-1, 0, 1}
\* p1[p1 > 0] and p2[p2 > 0] are ordered alike
Positive(fl) == ~fl.nan /\ fl.m # 0 /\ ~fl.neg
Below(fa, fb) == fa.s > fb.s \/ (fa.s = fb.s /\ fa.m < fb.m)
SameRanking(t1, t2) ==
    LET p1 == TupleProbs(t1)
        p2 == TupleProbs(t2)
        pos1 == {t \in 1..1924 : Positive(p1[t])}
        pos2 == {t \in 1..1924 : Positive(p2[t])}
    IN  /\ pos1 = pos2
        /\ \A a, b \in pos1 : Below(p1[a], p1[b]) <=> Below(p2[a], p2[b])

\* C20: the decoder is format-agnostic: decoding a legacy-text chunk and
\* decoding the v2 chunk that holds the same positions yield, record by
\* record in the same order, the same outcome, the same planes and the same
\* ranking of the non-zero policy probabilities.
C20_FormatAgnostic ==
    (/\ usrc.form = "v1" /\ ~usrc.tail /\ uk = 1
     /\ \A i \in 1..usrc.n : InBothFormats(PositionsOf(usrc)[i])) =>
        LET g2 == gen2
        IN  /\ udec # "raised"
            /\ udec = "returned" => Len(uout) = Len(g2)
            /\ \A m \in DOMAIN uout :
                  /\ ~convert_v2_to_tuple_bytes_raises(uout[m])
                  /\ ~convert_v2_to_tuple_bytes_raises(g2[m])
                  /\ LET t1 == convert_v2_to_tuple_bytes(uout[m])
                         t2 == convert_v2_to_tuple_bytes(g2[m])
                     IN  /\ t1.winner = t2.winner
                         /\ t1.planes = t2.planes
                         /\ SameRanking(t1, t2)
C20_Witness ==
    /\ usrc.form = "v1" /\ ~usrc.tail /\ uk = 1
    /\ \A i \in 1..usrc.n : InBothFormats(PositionsOf(usrc)[i])
    /\ udec = "returned"
    /\ Len(uout) = 3 /\ Len(gen2) = 3
    /\ \E m \in 1..3 : YieldedFrom(m).pol = "frac"

\* ------------------------------------------------ the claims on the migrator
\* the v2 record the k-th written record was made from: the k-th window of
\* a v2 file, the k-th converted line group of a text file
MigratedFrom(k) ==
    IF mblob.text
    THEN convert_v1_to_v2_bytes(Group(mblob.lines, (k - 1) * DATA_ITEM_LINES))
    ELSE SubSeq(mblob.bytes, (k - 1) * V2_BYTES + 1, k * V2_BYTES)
\* the four bytes of probability i (from 0) of a record
ProbAt(content, i) == SubSeq(content, 4 + 4 * i + 1, 4 + 4 * i + 4)
\* the move string with its two rank digits mirrored, 1..8 to 8..1
Mirror(m) == [c \in DOMAIN m |-> IF c \in {2, 4} THEN 49 + (56 - m[c]) ELSE m[c]]
\* the algebraic move slot j of the new encoding stands for in a record
SlotMove(content, j) ==
    IF content[IntsAt + 5] # 0 THEN Mirror(new_movelist[j + 1])
    ELSE new_movelist[j + 1]

\* C21: every slot j of a migrated record holds the probability the v2
\* record holds at the old-encoding index of the move j stands for, the
\* move string being mirrored vertically for a black-to-move record and
\* taken as it is for a white-to-move one.
C21_PolicyRemap ==
    \A k \in DOMAIN mout :
        LET in == MigratedFrom(k)
        IN  \A j \in 0..(V3_NUM_POLICY_MOVES - 1) :
               LET i == old_move_idx_of(mmaps, SlotMove(in, j))
               IN  /\ i \in 0..(V2_NUM_POLICY_MOVES - 1)
                   /\ old_movelist[i + 1] = SlotMove(in, j)
                   /\ ProbAt(mout[k], j) = ProbAt(in, i)

\* a white-to-move and a black-to-move record were migrated; the last slot
\* of the second holds what the v2 record held for the mirrored promotion
C21_Witness ==
    /\ mpc = "done" /\ Len(mout) = 2
    /\ MigratedFrom(1)[IntsAt + 5] = 0 /\ MigratedFrom(2)[IntsAt + 5] = 1
    /\ SlotMove(MigratedFrom(2), V3_NUM_POLICY_MOVES - 1) = <<104, 50, 104, 49, 98>>
    /\ ProbAt(mout[2], V3_NUM_POLICY_MOVES - 1)
         = ProbAt(MigratedFrom(2), V2_NUM_POLICY_MOVES - 1)
    /\ ProbAt(mout[2], V3_NUM_POLICY_MOVES - 1) # <<0, 0, 0, 0>>

\* the old-encoding move i has no slot in the new encoding for the side to
\* move of the record
NoSlot(content, i) ==
    IF content[IntsAt + 5] # 0
    THEN Mirror(old_movelist[i + 1]) \notin NewVocabulary
    ELSE old_movelist[i + 1] \notin NewVocabulary
ZeroProb == <<0, 0, 0, 0>>

\* C22: in a migrated record a slot whose move the old vocabulary does not
\* hold is zero, every slot is filled from the policy vector of the input,
\* and a record is migrated only if its probability is zero at every old
\* move that has no slot in the new encoding.
C22_DroppedMovesAreZero ==
    \A k \in DOMAIN mout :
        LET in == MigratedFrom(k)
        IN  /\ \A j \in 0..(V3_NUM_POLICY_MOVES - 1) :
                  LET i == old_move_idx_of(mmaps, SlotMove(in, j))
                  IN  IF i \in 0..(V2_NUM_POLICY_MOVES - 1)
                      THEN ProbAt(mout[k], j) = ProbAt(in, i)
                      ELSE ProbAt(mout[k], j) = ZeroProb
            /\ \A i \in 0..(V2_NUM_POLICY_MOVES - 1) :
                  NoSlot(in, i) => ProbAt(in, i) = ZeroProb

\* a probability that is a multiple of 1/2048, in units of 1/2048
Units(b) ==
    LET fl == FromBytes32(b)
    IN  IF fl.m = 0 THEN 0 ELSE fl.m \div (2 ^ (fl.s - 11))
\* the sum of probabilities lo..hi of a record, and the index of the
\* largest of them
RECURSIVE SumProbs(_, _, _)
SumProbs(content, lo, hi) ==
    IF lo = hi THEN Units(ProbAt(content, lo))
    ELSE SumProbs(content, lo, (lo + hi) \div 2)
           + SumProbs(content, ((lo + hi) \div 2) + 1, hi)
RECURSIVE Largest(_, _, _)
Largest(content, lo, hi) ==
    IF lo = hi THEN [at |-> lo, units |-> Units(ProbAt(content, lo))]
    ELSE LET a == Largest(content, lo, (lo + hi) \div 2)
             b == Largest(content, ((lo + hi) \div 2) + 1, hi)
         IN  IF b.units > a.units THEN b ELSE a
ArgMax(content, lo, hi) == Largest(content, lo, hi).at

\* C23: a record migrated from a v2 file has the same total probability as
\* its v2 record, and its highest slot stands, under the new map for the
\* side to move, for the move the highest index of the v2 record stands
\* for under the old map.
C23_MassAndBestMoveKept ==
    \A k \in DOMAIN mout :
        ~mblob.text =>
            LET in == MigratedFrom(k)
            IN  /\ SumProbs(mout[k], 0, V3_NUM_POLICY_MOVES - 1)
                     = SumProbs(in, 0, V2_NUM_POLICY_MOVES - 1)
                /\ SlotMove(in, ArgMax(mout[k], 0, V3_NUM_POLICY_MOVES - 1))
                     = old_movelist[ArgMax(in, 0, V2_NUM_POLICY_MOVES - 1) + 1]

\* plane p of ply hist of a v2 record and of a v3 record
PlaneV2(content, hist, p) ==
    SubSeq(content, 4 + 4 * V2_NUM_POLICY_MOVES + (hist * V2_NUM_PLANES + p) * 8 + 1,
           4 + 4 * V2_NUM_POLICY_MOVES + (hist * V2_NUM_PLANES + p) * 8 + 8)
PlaneV3(content, hist, p) ==
    SubSeq(content, 4 + 4 * V3_NUM_POLICY_MOVES + (hist * V3_NUM_PLANES + p) * 8 + 1,
           4 + 4 * V3_NUM_POLICY_MOVES + (hist * V3_NUM_PLANES + p) * 8 + 8)
\* the eight bytes of a plane in the opposite order
Flipped(plane) == <<plane[8], plane[7], plane[6], plane[5],
                    plane[4], plane[3], plane[2], plane[1]>>

\* C24: on the even plies 0, 2, 4, 6 the twelve piece planes of a migrated
\* record are those of the v2 record, byte for byte and in the same order;
\* on the odd plies 1, 3, 5, 7 the six us planes and the six them planes
\* have changed places and each plane has its bytes in reverse order.
C24_PlaneRewrite ==
    \A k \in DOMAIN mout :
        LET in == MigratedFrom(k)
        IN  \A hist \in 0..(NUM_HIST - 1) : \A p \in 0..11 :
               PlaneV3(mout[k], hist, p)
                 = IF hist % 2 = 0 THEN PlaneV2(in, hist, p)
                   ELSE Flipped(PlaneV2(in, hist, (p + 6) % 12))

\* a record was migrated whose 96 piece planes all differ from one another
\* and from their reversals
C24_Witness ==
    /\ mout # <<>>
    /\ LET in == MigratedFrom(1)
       IN  /\ \A h1, h2 \in 0..(NUM_HIST - 1) : \A p1, p2 \in 0..11 :
                 /\ (<<h1, p1>> # <<h2, p2>> =>
                        PlaneV2(in, h1, p1) # PlaneV2(in, h2, p2))
                 /\ PlaneV2(in, h1, p1) # Flipped(PlaneV2(in, h2, p2))
           /\ PlaneV3(mout[1], 1, 0) = Flipped(PlaneV2(in, 1, 6))
           /\ PlaneV3(mout[1], 2, 0) = PlaneV2(in, 2, 0)

\* no reps=2 plane of the v2 record equals another of its planes or the
\* reversal of one
Reps2Apart(content) ==
    \A h2, hist \in 0..(NUM_HIST - 1) : \A p \in 0..12 :
        /\ PlaneV2(content, h2, 13) # PlaneV2(content, hist, p)
        /\ PlaneV2(content, h2, 13) # Flipped(PlaneV2(content, hist, p))

\* C25: a migrated record has 13 planes for every ply, the 12 piece planes
\* and then the reps=1 plane, which is plane 12 of the same ply of the v2
\* record, unchanged; plane 13 of the v2 record's plies, the reps=2 plane,
\* is no plane of the output.
C25_Reps2PlaneDropped ==
    \A k \in DOMAIN mout :
        LET in == MigratedFrom(k)
        IN  /\ Len(mout[k]) = 4 + 4 * V3_NUM_POLICY_MOVES + NUM_HIST * 13 * 8 + 12
            /\ \A hist \in 0..(NUM_HIST - 1) :
                  PlaneV3(mout[k], hist, 12) = PlaneV2(in, hist, 12)
            /\ Reps2Apart(in) =>
                  \A hist, h2 \in 0..(NUM_HIST - 1) : \A p \in 0..12 :
                      PlaneV3(mout[k], hist, p) # PlaneV2(in, h2, 13)

\* a record was migrated whose reps=2 planes are not empty and differ from
\* all its other planes, and whose reps=1 planes differ from ply to ply
C25_Witness ==
    /\ mout # <<>>
    /\ Reps2Apart(MigratedFrom(1))
    /\ PlaneV2(MigratedFrom(1), 3, 13) # <<0, 0, 0, 0, 0, 0, 0, 0>>
    /\ PlaneV2(MigratedFrom(1), 3, 12) # PlaneV2(MigratedFrom(1), 4, 12)
    /\ PlaneV3(mout[1], 3, 12) = PlaneV2(MigratedFrom(1), 3, 12)

\* the v3 layout: where the fields after the planes start, and the fields
RealsAtV3 == 4 + 4 * V3_NUM_POLICY_MOVES + NUM_HIST * V3_NUM_PLANES * 8
Rule50V3(content) == SubSeq(content, RealsAtV3 + 1, RealsAtV3 + 4)
CastlingV3(content) == SubSeq(content, RealsAtV3 + 5, RealsAtV3 + 8)
SideToMoveV3(content) == content[RealsAtV3 + 9]
MoveCountV3(content) == content[RealsAtV3 + 10]
OutcomeV3(content) == UnpackInt8(content[RealsAtV3 + 11])
UnusedV3(content) == content[RealsAtV3 + 12]

\* C26: the move_count of every migrated record is 0, whatever the
\* move_count of its v2 record.
C26_MoveCountZero ==
    \A k \in DOMAIN mout : MoveCountV3(mout[k]) = 0

\* C27: the four castling rights, the side to move and the outcome of a
\* migrated record are those of its v2 record, each at the place the v3
\* layout gives it, and the last byte, the unused one, is 0.
C27_FrameFields ==
    \A k \in DOMAIN mout :
        LET in == MigratedFrom(k)
        IN  /\ CastlingV3(mout[k]) = SubSeq(in, IntsAt + 1, IntsAt + 4)
            /\ SideToMoveV3(mout[k]) = in[IntsAt + 5]
            /\ OutcomeV3(mout[k]) = UnpackInt8(in[WinnerAt + 1])
            /\ UnusedV3(mout[k]) = 0
            /\ Len(mout[k]) = RealsAtV3 + 12

\* a black-to-move record that black lost, with two of the four castling
\* rights, was migrated
C27_Witness ==
    /\ mout # <<>>
    /\ SubSeq(MigratedFrom(1), IntsAt + 1, IntsAt + 5) = <<1, 0, 0, 1, 1>>
    /\ UnpackInt8(MigratedFrom(1)[WinnerAt + 1]) = -1
    /\ CastlingV3(mout[1]) = <<1, 0, 0, 1>>
    /\ SideToMoveV3(mout[1]) = 1
    /\ OutcomeV3(mout[1]) = -1

\* fl is a float32 nearest to r / 100
NearestHundredth(fl, r) ==
    /\ ~fl.nan
    /\ IF r = 0 THEN fl.m = 0
       ELSE /\ ~fl.neg /\ fl.m \in (2 ^ 23)..(2 ^ 24 - 1)
            /\ LET quo == (r * (2 ^ fl.s)) \div 100
                   rem == (r * (2 ^ fl.s)) % 100
               IN  \/ fl.m = quo /\ 2 * rem <= 100
                   \/ fl.m = quo + 1 /\ 2 * rem >= 100
\* 0 <= fl <= 1
InUnitInterval(fl) == ~fl.nan /\ (fl.m = 0 \/ (~fl.neg /\ fl.m <= 2 ^ fl.s))

\* C28: the rule50_count of a migrated record is the rule50_count of its v2
\* record, an integer in 0..255, divided by 100 (as the nearest float32),
\* and lies in [0, 1].
C28_Rule50Normalized ==
    \A k \in DOMAIN mout :
        LET fl == FromBytes32(Rule50V3(mout[k]))
        IN  /\ NearestHundredth(fl, MigratedFrom(k)[IntsAt + 6])
            /\ InUnitInterval(fl)

\* v3_struct.unpack as display_v2_or_v3 names its fields; it raises
\* unless the content has V3_BYTES bytes
unpack_v3(content) ==
    [ver |-> SubSeq(content, 1, 4),
     probs |-> SubSeq(content, 5, 4 + 4 * V3_NUM_POLICY_MOVES),
     planes |-> SubSeq(content, 4 + 4 * V3_NUM_POLICY_MOVES + 1, RealsAtV3),
     rule50_count |-> FromBytes32(SubSeq(content, RealsAtV3 + 1, RealsAtV3 + 4)),
     us_ooo |-> content[RealsAtV3 + 5],
     us_oo |-> content[RealsAtV3 + 6],
     them_ooo |-> content[RealsAtV3 + 7],
     them_oo |-> content[RealsAtV3 + 8],
     us_black |-> content[RealsAtV3 + 9],
     move_count |-> content[RealsAtV3 + 10],
     winner |-> UnpackInt8(content[RealsAtV3 + 11]),
     unused |-> content[RealsAtV3 + 12]]
\* v3_struct.pack of the fields
pack_v3(f) ==
    f.ver \o f.probs \o f.planes \o ToBytes32(f.rule50_count)
        \o <<f.us_ooo, f.us_oo, f.them_ooo, f.them_oo, f.us_black,
             f.move_count, PackInt8(f.winner), f.unused>>

\* main has converted every record its loop has passed
Converting ==
    /\ margs.convert
    /\ Head4(mblob) # <<1, 0, 0, 0>> /\ Head4(mblob) # <<3, 0, 0, 0>>

\* C29: for every record of 8604 bytes the migrator is given it writes one
\* record of 8280 bytes that starts with the v3 tag; unpacked with the v3
\* layout (version, 1858 probabilities, 104 planes, float rule50, four
\* castling bytes, side to move, move_count, outcome, unused) it gives the
\* fields the migrator wrote, and packing them again gives the same bytes.
C29_OneV3RecordEach ==
    /\ Converting => Len(mout) = (IF mpc = "raised" THEN mi - 1 ELSE mi)
    /\ \A k \in DOMAIN mout :
          LET in == MigratedFrom(k)
              f == unpack_v3(mout[k])
          IN  /\ Len(in) = 8604
              /\ Len(mout[k]) = 8280
              /\ f.ver = <<3, 0, 0, 0>>
              /\ Len(f.probs) = 4 * 1858
              /\ \A j \in 0..1857 : SubSeq(f.probs, 4 * j + 1, 4 * j + 4) = ProbAt(mout[k], j)
              /\ Len(f.planes) = 8 * 104
              /\ \A hist \in 0..(NUM_HIST - 1) :
                    SubSeq(f.planes, hist * 104 + 97, hist * 104 + 104)
                       = PlaneV2(in, hist, 12)
              /\ NearestHundredth(f.rule50_count, in[IntsAt + 6])
              /\ <<f.us_ooo, f.us_oo, f.them_ooo, f.them_oo, f.us_black>>
                    = SubSeq(in, IntsAt + 1, IntsAt + 5)
              /\ f.move_count = in[IntsAt + 7]
              /\ f.winner = UnpackInt8(in[WinnerAt + 1])
              /\ f.unused = 0
              /\ pack_v3(f) = mout[k]

\* main has converted a file of two records and returned
C29_Witness ==
    /\ mpc = "done" /\ mi = 2 /\ Len(mout) = 2
    /\ Len(mblob.bytes) = 2 * 8604
    /\ Len(mout[1]) = 8280 /\ Len(mout[2]) = 8280
    /\ unpack_v3(mout[2]).rule50_count = [nan |-> FALSE, neg |-> FALSE, m |-> 2 ^ 23, s |-> 23]

\* the window the last turn of the loop over a v2 file was about
LastWindow == Cut(mblob.bytes, (mi - 1) * V2_BYTES, mi * V2_BYTES)
IsV2Record(content) == Len(content) = 8604 /\ SubSeq(content, 1, 4) = <<2, 0, 0, 0>>

\* C30: the migrator raises and writes no record for an input that is not
\* a v2 record: every written record was made from 8604 bytes that start
\* with the tag 2, a window of a v2 file that has another length or
\* another tag, the first of the file or a later one, ends main with an
\* error, and so does a v3 file given with --convert.
C30_NonV2Refused ==
    /\ \A k \in DOMAIN mout : IsV2Record(MigratedFrom(k))
    /\ (margs.convert /\ Head4(mblob) = <<3, 0, 0, 0>> /\ mi > 0) =>
          (mpc = "raised" /\ mout = <<>>)
    /\ (margs.convert /\ Head4(mblob) = <<2, 0, 0, 0>> /\ mi > 0
          /\ ~IsV2Record(LastWindow)) =>
          (mpc = "raised" /\ Len(mout) = mi - 1)

\* ------------------------------------------- the claims on the file source
Returned(i) == fret[i] # <<>>

\* C31: FileDataSrc built on a list that holds at least one file never returns
\* the end-of-data value, whatever files of the current pass fail to open or
\* to decompress; it returns it only for a list with no files.
C31_NeverEndOfData == \A i \in DOMAIN fret : ~Returned(i) => ffiles = <<>>

AllReadable == \A f \in DOMAIN fkind : fkind[f] = "ok"
FileSet == Range(ffiles)

PassOf(i) == (i - 1) \div Len(ffiles)

\* C36: when every file is readable, after any number of calls the files of
\* chunks and done together are the files given at construction, each once;
\* every call returns a file, and the calls fall into passes of as many calls
\* as there are files, in each of which no file is returned twice (so a whole
\* pass returns every file once).
C36_FileSetKept ==
    (AllReadable /\ ffiles # <<>>) =>
        /\ BagOf(fchunks \o fdone) = BagOf(ffiles)
        /\ \A i \in DOMAIN fret : Returned(i) /\ fret[i][1] \in FileSet
        /\ \A i, j \in DOMAIN fret :
             (i < j /\ PassOf(i) = PassOf(j)) => fret[i] # fret[j]
        /\ fret # <<>> =>
             Range(fdone) = {fret[i][1] : i \in {k \in DOMAIN fret : PassOf(k) = PassOf(Len(fret))}}

C36_Witness ==
    /\ AllReadable
    /\ Len(ffiles) = F_MaxFiles
    /\ Len(fret) > F_MaxFiles + 1
    /\ fret[1] # fret[F_MaxFiles + 1]

\* --------------------------------------------- the claims on the channels
\* the records the consumer has read from worker w's pipe so far
Received(w) == SubSeq(sent[w], 1, Len(sent[w]) - Len(chan[w]))

\* record a is yielded before record b by one worker's decoder: a's blob is
\* pulled earlier (the source pops from the end of its list), or they are of
\* the same blob and a comes first in it
YieldedBefore(a, b) ==
    \/ a.planes[1] > b.planes[1]
    \/ a.planes[1] = b.planes[1] /\ a.planes[2] < b.planes[2]

InFlight(w) == Len(chan[w]) + (IF wpc[w] = "send" THEN 1 ELSE 0)

\* worker w is in send_bytes and its pipe is full
BlockedOnSend(w) == wpc[w] = "send" /\ Len(chan[w]) >= ChanCap

\* C33: backpressure: in every reachable state each worker has at most the
\* pipe's capacity plus one record in flight (the pipe's content and the one
\* record it holds in send_bytes), and a worker blocked on its full pipe sends
\* nothing, decodes nothing and pulls nothing until the consumer has read.
C33_Backpressure ==
    /\ [](\A w \in Workers : Len(chan[w]) <= ChanCap /\ InFlight(w) <= ChanCap + 1)
    /\ [][\A w \in Workers :
            BlockedOnSend(w) =>
                /\ sent'[w] = sent[w] /\ wq'[w] = wq[w]
                /\ items'[w] = items[w] /\ wpc'[w] = wpc[w]
                /\ Len(chan'[w]) <= Len(chan[w])]_vars

C33_Witness ==
    /\ workers = 2
    /\ \A w \in Workers : BlockedOnSend(w) /\ InFlight(w) = ChanCap + 1
    /\ inserted # <<>>

\* v2_gen is in recv_bytes on the reader its list iterator points at
BlockedOnRecv == cpc = "poll" /\ Driven

\* C34: the consumer's blocking round-robin read does not stall forever: with
\* every live worker eventually sending or ending, v2_gen does not stay in
\* recv_bytes on one reader for ever; again and again it gets a record or an
\* end-of-stream from the pipe it waits on (and so leaves the poll loop in the
\* end), whatever other workers are blocked on full pipes meanwhile.
C34_NoStall == ([]<>~BlockedOnRecv) \/ ([]<><<v2_gen_recv \/ v2_gen_eof>>_vars)

\* the consumer waits on an empty pipe of a live worker while another worker
\* is blocked on its full pipe
C34_Witness ==
    /\ BlockedOnRecv
    /\ chan[readers[ri + 1]] = <<>> /\ ~Closed(readers[ri + 1])
    /\ \E w \in Workers : w # readers[ri + 1] /\ BlockedOnSend(w)

\* worker w's reader has reported end-of-stream and left the poll list
Removed(w) == w \notin Range(readers)

\* C35: end-of-stream is delivered for every worker. The worker holds the only
\* write end, so with the consumer polling on, in the end the reader of every
\* worker whose loop has ended has reported end-of-stream and is removed, and
\* that happens only after every record the worker sent has been read.
\* Removing a reader while the list is iterated drops no other reader: the
\* iterator stays inside the list, only the polled reader leaves it, and a
\* reader whose worker is alive or whose pipe still holds records is in it.
C35_EndOfStreamDelivered ==
    /\ [](\A w \in Workers :
            /\ Removed(w) => (Closed(w) /\ chan[w] = <<>> /\ Received(w) = sent[w])
            /\ (cpc = "poll") => (ri < Len(readers))
            /\ (cpc # "poll") => Removed(w))
    /\ [][\A w \in Workers :
            (Removed(w)' /\ ~Removed(w)) =>
                (readers[ri + 1] = w /\ Range(readers') = Range(readers) \ {w})]_vars
    /\ <>[](\A w \in Workers : Closed(w) => (Removed(w) \/ ~Driven))

C35_Witness ==
    /\ workers = 2
    /\ readers = <<2>> /\ cpc = "poll"
    /\ sent[1] # <<>>
    /\ ~Closed(2) /\ chan[2] # <<>>

\* ------------------------------------------ the claims on the packed tensors
\* bit b (from 0, most significant first) of the 896 packed plane bytes of a
\* v2 record, which start after the 4 tag bytes and the 7696 policy bytes
PackedBit(content, b) == (content[7700 + (b \div 8) + 1] \div (2 ^ (7 - (b % 8)))) % 2

\* the 4 bytes of the float32 of an outcome
OutcomeFloat(w) ==
    IF w = 1 THEN <<0, 0, 128, 63>> ELSE IF w = 0 THEN <<0, 0, 0, 0>> ELSE <<0, 0, 128, 191>>

\* C37: convert_v2_to_tuple maps a v2 record to (planes, probs, winner) where
\* planes is exactly 120*64 bytes: the 112*64 bits of the packed planes, one
\* byte each and in order, then seven planes of 64 equal bytes holding us_ooo,
\* us_oo, them_ooo, them_oo, side_to_move, rule50_count and move_count in that
\* order, then one plane of zeros; probs is the record's 7696 policy bytes
\* unchanged; winner is the 4 bytes of the outcome as a float32.
C37_TupleLayout ==
    \A j \in DOMAIN utup :
        LET content == uemit[j]
            t == utup[j]
        IN  /\ Len(t.planes) = 120 * 64
            /\ \A b \in 0..(112 * 64 - 1) : t.planes[b + 1] = PackedBit(content, b)
            /\ \A p \in 1..7 : \A b \in 1..64 :
                  t.planes[(111 + p) * 64 + b] = content[8596 + p]
            /\ \A b \in 1..64 : t.planes[119 * 64 + b] = 0
            /\ Len(t.probs) = 7696
            /\ \A i \in 1..7696 : t.probs[i] = content[4 + i]
            /\ t.winner = OutcomeFloat(UnpackInt8(content[8604]))

C37_Witness ==
    \E j \in DOMAIN utup :
        /\ uemit[j][8602] = 150 /\ uemit[j][8603] = 255
        /\ utup[j].planes[117 * 64 + 1] = 150 /\ utup[j].planes[118 * 64 + 64] = 255
        /\ utup[j].winner = <<0, 0, 128, 191>>
        /\ \E b \in 1..(112 * 64) : utup[j].planes[b] = 1
        /\ \E i \in 1..7696 : utup[j].probs[i] # 0

\* the numbers on the rule50 and move-count lines of a text record, and the
\* bytes 8602 and 8603 of a v2 record, which hold rule50_count and move_count
CountLines(item) == <<int(item[118][1]), int(item[119][1])>>
CountBytes(content) == <<content[8602], content[8603]>>

\* the m-th record the decoder yielded for a text chunk comes from this group
YieldedItem(m) == TextItem(KeptCandidates[m])

\* the kept text group the decoder raised on, if it raised
RaisedItem == TextItem(KeptCandidates[Len(uout) + 1])

\* C38: when a legacy-text record is packed, its rule50 and move-count lines n
\* (any non-negative integers) are stored as min(n, 255): the stored byte is in
\* 0..255, it is n whenever n is at most 255, and the packing never fails
\* because of them: a conversion that raises has another cause (a line group
\* cut short, a policy line of another length, an outcome outside -1, 0, 1).
C38_CountsClamped ==
    usrc.form = "v1" =>
        /\ \A m \in DOMAIN uout : \A c \in 1..2 :
              LET n == CountLines(YieldedItem(m))[c]
                  b == CountBytes(uout[m])[c]
              IN  /\ b \in 0..255
                  /\ n <= 255 => b = n
                  /\ n > 255 => b = 255
        /\ udec = "raised" => BadTextItem(RaisedItem)

C38_Witness ==
    /\ usrc.form = "v1"
    /\ \E m \in DOMAIN uout :
          /\ CountLines(YieldedItem(m)) = <<300, 256>>
          /\ CountBytes(uout[m]) = <<255, 255>>
    /\ \E m \in DOMAIN uout :
          /\ CountLines(YieldedItem(m)) = <<150, 255>>
          /\ CountBytes(uout[m]) = <<150, 255>>

\* ------------------------------------- the claims on the supervised parser
num_samples == plen \div example_len

\* example e of the file, as a byte string
Example(e) == <<[from |-> e * example_len, to |-> (e + 1) * example_len]>>

\* C39: for a file of n >= 1 examples and any batch size, every item
\* parse_chunk yields is exactly example_len bytes long and the item at stream
\* position i (from 0) is example i mod n of the file, also when a batch wraps
\* past the end of the file and when the batch size is larger than n.
C39_CyclicStream ==
    \A i \in DOMAIN pout :
        /\ ExtLen(pout[i]) = example_len
        /\ pout[i] = Example((i - 1) % num_samples)

\* the stream is cyclic whenever the batch is no larger than the file
SmallBatchCyclicStream == (pbatch * example_len <= plen) => C39_CyclicStream

====
